---------------------------- MODULE Spec2Model ----------------------------
(***************************************************************************)
(* GyroLib: the motion-analysis core of src/module (orientation math, the  *)
(* thresholding integrator, the energy / frequency / jerk detectors and    *)
(* the pipeline that runs them once per sample).                           *)
(*                                                                         *)
(* Numbers.  The program computes in floating point.  Here every real      *)
(* quantity is a fixed-point integer with two decimals (the value times   *)
(* Scale): 0.95 is 95, 0.15 is 15, 1000.0 is 100000, a timestamp of 0.03 s *)
(* is 3.  Products and quotients truncate toward zero.                     *)
(*                                                                         *)
(* Optional values.  Python's None is the empty tuple << >> and a present  *)
(* value v is the one-element tuple << v >>.                               *)
(***************************************************************************)
EXTENDS Integers, Sequences, FiniteSets, TLC

VARIABLES
    sma,                \* MovingAverageFilter buffers of the processor
    last_time,          \* SensorDataProcessor.last_time
    velocity,           \* SensorDataProcessor.velocity
    prev_accel,         \* SensorDataProcessor.prev_accel
    energy_thresholds,  \* EnergyDetector.thresholds
    freq_thresholds,    \* FrequencyAnalyzer.thresholds
    gyro_buffers,       \* FrequencyAnalyzer.gyro_buffers  (x, y, z)
    accel_buffers,      \* FrequencyAnalyzer.accel_buffers (x, y, z)
    jerk_thresholds,    \* JerkDetector.thresholds
    accel_history,      \* JerkDetector.accel_history
    timestamp_history,  \* JerkDetector.timestamp_history
    jerk_state,         \* JerkDetector.jerk_state
    results_history,    \* MotionAnalysisPipeline.results_history
    clock,              \* the wall clock read by time.time()
    last,               \* the most recent call: its inputs, the state it found, its outcome
    fed,                \* ghost: what each detector has been handed so far, in order
    stream,             \* the scripted sample stream of StepSpec (None elsewhere)
    ncalls,             \* number of calls made so far
    nconfig,            \* number of configure calls made so far
    input,              \* the arguments drawn for the orientation functions (None elsewhere)
    received,           \* ghost: the datagrams the receiver has taken from the socket, in order
    delivered,          \* GyroStickReceiver: what the data callback was called with, in order
    reported,           \* GyroStickReceiver: what the error callback was called with, in order
    callbacks,          \* MotionAnalyzer.callbacks
    invoked,            \* the calls made to callbacks: << callback, result >>, in order
    recorder,           \* data_collect: the globals of the recording loop
    controller,         \* MotionLEDController: its fields and its threads
    device              \* GyroStickReceiver: LED control and the commands sent to the stick

vars == <<sma, last_time, velocity, prev_accel, energy_thresholds, freq_thresholds,
          gyro_buffers, accel_buffers, jerk_thresholds, accel_history,
          timestamp_history, jerk_state, results_history, clock, last, fed, stream,
          ncalls, nconfig, input, received, delivered, reported, callbacks, invoked,
          recorder, controller, device>>

procVars   == <<sma, last_time, velocity, prev_accel>>
energyVars == <<energy_thresholds>>
freqVars   == <<freq_thresholds, gyro_buffers, accel_buffers>>
jerkVars   == <<jerk_thresholds, accel_history, timestamp_history, jerk_state>>
pipeVars   == <<results_history, clock>>
recvVars   == <<received, delivered, reported>>
notifyVars == <<callbacks, invoked>>
hostVars   == <<recorder, controller, device>>
auxVars    == <<input, recvVars, notifyVars, hostVars>>

-----------------------------------------------------------------------------
(* Bounds of the model.  The capacities are the program's, scaled down so   *)
(* that eviction happens within the explored runs.                          *)

MaxCalls == 3          \* calls per run of the integrator on its own
MaxSamples == 3        \* samples per run of the pipeline
MaxJerkCalls == 5      \* calls per run of the jerk detector on its own
MaxCallbacks == 3      \* callbacks registered with one analyzer
MaxNotify == 3         \* notifications per run of one analyzer
MaxKeys == 2           \* lines typed at the keyboard per run
MaxColors == 3         \* datagrams that set the LED per run
MaxLedCalls == 3       \* calls of the LED controller per run
FadeSteps == 2         \* steps of the fade of a flash (20 in the program)
MaxRecord == 4         \* datagrams per run of the recording loop
MaxRun == 6            \* samples per longer run of the pipeline
MaxFrequencyCalls == 7 \* calls per run of the frequency analyzer on its own
MaxFeed == 11          \* calls per run of the buffer feed
MaxTime == 3           \* largest timestamp of a direct call, in 0.01 s
MaxConfig == 1         \* configure calls per run
MaxHold == 3           \* samples held at the level in a step stream
MaxDatagrams == 3      \* datagrams per run of the receiver
SMA_WINDOW == 2        \* window_size of the moving average (20 in the program)
SPECTRAL_MAXLEN == 6   \* deque(maxlen=1024) of the spectral buffers
JERK_MAXLEN == 3       \* deque(maxlen=10) of the jerk history

-----------------------------------------------------------------------------
(* Fixed-point arithmetic *)

Scale == 10 * 10
One == Scale
None == << >>
Some(v) == << v >>

Abs(x) == IF x < 0 THEN -x ELSE x

\* integer quotient truncated toward zero (b # 0)
TruncDiv(a, b) ==
    IF (a >= 0) = (b > 0) THEN Abs(a) \div Abs(b) ELSE -(Abs(a) \div Abs(b))

FMul(a, b) == TruncDiv(a * b, Scale)
FDiv(a, b) == TruncDiv(a * Scale, b)

RECURSIVE Newton(_, _)
Newton(n, x) ==
    LET y == (x + n \div x) \div 2
    IN  IF y >= x THEN x ELSE Newton(n, y)

\* floor of the integer square root
ISqrt(n) == IF n <= 0 THEN 0 ELSE Newton(n, n)

FSqrt(a) == ISqrt(a * Scale)

RECURSIVE SumSeq(_)
SumSeq(s) == IF s = << >> THEN 0 ELSE Head(s) + SumSeq(Tail(s))

\* collections.deque(maxlen=n).append: the oldest element leaves first
DequeAppendKeepOldest(buf, v, maxlen) ==
    IF Len(buf) < maxlen THEN Append(buf, v) ELSE buf

DequeAppend(buf, v, maxlen) ==
    IF Len(buf) < maxlen THEN Append(buf, v) ELSE Append(Tail(buf), v)

Axes == 1..3

-----------------------------------------------------------------------------
(* SensorMath (src/module/SensorMath.py) *)

Dot3(r, v) == FMul(r[1], v[1]) + FMul(r[2], v[2]) + FMul(r[3], v[3])
MatVec(R, v) == << Dot3(R[1], v), Dot3(R[2], v), Dot3(R[3], v) >>

quaternion_to_rotation_matrix(q) ==
    LET norm == FSqrt(FMul(q[1], q[1]) + FMul(q[2], q[2])
                      + FMul(q[3], q[3]) + FMul(q[4], q[4]))
        w == IF norm > 0 THEN FDiv(q[1], norm) ELSE q[1]
        x == IF norm > 0 THEN FDiv(q[2], norm) ELSE q[2]
        y == IF norm > 0 THEN FDiv(q[3], norm) ELSE q[3]
        z == IF norm > 0 THEN FDiv(q[4], norm) ELSE q[4]
    IN  << << One - 2 * (FMul(y, y) + FMul(z, z)),
              2 * (FMul(x, y) - FMul(w, z)),
              2 * (FMul(x, z) + FMul(w, y)) >>,
           << 2 * (FMul(x, y) + FMul(w, z)),
              One - 2 * (FMul(x, x) + FMul(z, z)),
              2 * (FMul(y, z) - FMul(w, x)) >>,
           << 2 * (FMul(x, z) - FMul(w, y)),
              2 * (FMul(y, z) + FMul(w, x)),
              One - 2 * (FMul(x, x) + FMul(y, y)) >> >>

transform_to_global(local_vector, quaternion) ==
    MatVec(quaternion_to_rotation_matrix(quaternion), local_vector)

\* a transformation back that rotates by the quaternion itself
transform_to_local_unconjugated(global_vector, quaternion) ==
    MatVec(quaternion_to_rotation_matrix(quaternion), global_vector)

transform_to_local(global_vector, quaternion) ==
    LET q_conjugate == << quaternion[1], -quaternion[2], -quaternion[3], -quaternion[4] >>
    IN  MatVec(quaternion_to_rotation_matrix(q_conjugate), global_vector)

(* An angle is kept as the pair << cos, sin >> of its cosine and sine, which *)
(* is all that its users read.                                              *)
Atan2(y, x) ==
    LET hyp == FSqrt(FMul(y, y) + FMul(x, x))
    IN  IF hyp = 0 THEN << One, 0 >> ELSE << FDiv(x, hyp), FDiv(y, hyp) >>

Asin(s) == << FSqrt(One - FMul(s, s)), s >>

\* math.copysign(math.pi/2, s): cos is 0 at this resolution, sin is +1 or -1
HalfPi(s) == << 0, IF s < 0 THEN -One ELSE One >>

quaternion_to_euler_angles(q) ==
    LET w == q[1]
        x == q[2]
        y == q[3]
        z == q[4]
        roll == Atan2(2 * (FMul(w, x) + FMul(y, z)), One - 2 * (FMul(x, x) + FMul(y, y)))
        sin_pitch == 2 * (FMul(w, y) - FMul(z, x))
        pitch == IF Abs(sin_pitch) >= One THEN HalfPi(sin_pitch) ELSE Asin(sin_pitch)
        yaw == Atan2(2 * (FMul(w, z) + FMul(x, y)), One - 2 * (FMul(y, y) + FMul(z, z)))
    IN  << roll, pitch, yaw >>

(* The gimbal branch (cos(pitch) clamped to 1e-6, tan(pitch) near 1.6e16)    *)
(* lies outside the two-decimal range: there cos_pitch is 0 and the         *)
(* quotients below are undefined.  The quaternions of this model keep       *)
(* |sin_pitch| < 1.                                                         *)
body_angular_velocity_to_euler_rates(local_gyro, quaternion) ==
    LET angles == quaternion_to_euler_angles(quaternion)
        cos_roll == angles[1][1]
        sin_roll == angles[1][2]
        cos_pitch == angles[2][1]
        sin_pitch == angles[2][2]
        tan_pitch == FDiv(sin_pitch, cos_pitch)
        transformation_matrix ==
            << << One, FMul(sin_roll, tan_pitch), FMul(cos_roll, tan_pitch) >>,
               << 0, cos_roll, -sin_roll >>,
               << 0, FDiv(sin_roll, cos_pitch), FDiv(cos_roll, cos_pitch) >> >>
    IN  MatVec(transformation_matrix, local_gyro)

get_gravity_corrected_angular_velocity(local_gyro, quaternion) ==
    << local_gyro[1], local_gyro[2], local_gyro[3] >>

calculate_kinetic_energy(v, angular_velocity) ==
    LET v_squared == FMul(v[1], v[1]) + FMul(v[2], v[2]) + FMul(v[3], v[3])
        omega_squared == FMul(angular_velocity[1], angular_velocity[1])
                         + FMul(angular_velocity[2], angular_velocity[2])
                         + FMul(angular_velocity[3], angular_velocity[3])
        translational_energy == TruncDiv(v_squared, 2)
        rotational_energy == TruncDiv(omega_squared, 2)
    IN  [total |-> translational_energy + rotational_energy,
         translational |-> translational_energy,
         rotational |-> rotational_energy]

decay_factor == 95

\* an integration that takes the first-order step in every call
euler_integration(current_velocity, current_accel, prev, dt) ==
    [i \in Axes |-> current_velocity[i] + FMul(current_accel[i], dt)]

trapezoidal_integration(current_velocity, current_accel, prev, dt) ==
    IF prev = None
    THEN [i \in Axes |-> current_velocity[i] + FMul(current_accel[i], dt)]
    ELSE LET a_prev == prev[1]
             a_average == [i \in Axes |-> TruncDiv(a_prev[i] + current_accel[i], 2)]
         IN  [i \in Axes |-> FMul(decay_factor, current_velocity[i]) + FMul(dt, a_average[i])]

-----------------------------------------------------------------------------
(* MovingAverageFilter, filter_type 'sma' (src/module/Filter.py) *)

_apply_sma(buffer) ==
    IF Len(buffer) = 0 THEN 0 ELSE TruncDiv(SumSeq(buffer), Len(buffer))

\* the buffers after filter_raw_data has appended the sample
FilterAppended(parsed_data) ==
    [quaternion |-> [a \in 1..4 |->
                        DequeAppend(sma.quaternion[a], parsed_data.quaternion[a], SMA_WINDOW)],
     acceleration |-> [a \in Axes |->
                        DequeAppend(sma.acceleration[a], parsed_data.acceleration[a], SMA_WINDOW)],
     gyroscope |-> [a \in Axes |->
                        DequeAppend(sma.gyroscope[a], parsed_data.gyroscope[a], SMA_WINDOW)]]

\* the filtered sample filter_raw_data returns
filter_raw_data(parsed_data) ==
    LET b == FilterAppended(parsed_data)
    IN  [button |-> parsed_data.button,
         quaternion |-> [a \in 1..4 |-> _apply_sma(b.quaternion[a])],
         acceleration |-> [a \in Axes |-> _apply_sma(b.acceleration[a])],
         gyroscope |-> [a \in Axes |-> _apply_sma(b.gyroscope[a])]]

-----------------------------------------------------------------------------
(* SensorDataProcessor (src/module/SensorMath.py), built with its defaults *)

gyro_threshold == 5000
accel_threshold == 15

_apply_gyro_threshold(gyro_values) ==
    [i \in Axes |-> IF Abs(gyro_values[i]) < gyro_threshold THEN 0 ELSE gyro_values[i]]

_apply_accel_threshold(accel_values) ==
    [i \in Axes |-> IF Abs(accel_values[i]) < accel_threshold THEN 0 ELSE accel_values[i]]

(* process_sensor_data(parsed_data, current_time): the processor's fields   *)
(* after the call and the dictionary it returns.                            *)
process_sensor_data(raw_data, current_time) ==
    LET parsed_data == filter_raw_data(raw_data)
        raw_local_accel == parsed_data.acceleration
        raw_local_gyro == parsed_data.gyroscope
        local_accel == _apply_accel_threshold(raw_local_accel)
        local_gyro == _apply_gyro_threshold(raw_local_gyro)
        quaternion == parsed_data.quaternion
        global_accel == transform_to_global(local_accel, quaternion)
        euler_rates == body_angular_velocity_to_euler_rates(local_gyro, quaternion)
        gravity_corrected_gyro == get_gravity_corrected_angular_velocity(local_gyro, quaternion)
        integrates == last_time # None
        dt == IF integrates THEN current_time - last_time[1] ELSE 0
        new_velocity == IF integrates
                        THEN trapezoidal_integration(velocity, global_accel, prev_accel, dt)
                        ELSE velocity
        new_prev_accel == IF integrates THEN Some(global_accel) ELSE prev_accel
    IN  [sma |-> FilterAppended(raw_data),
         velocity |-> new_velocity,
         prev_accel |-> new_prev_accel,
         last_time |-> Some(current_time),
         ret |-> [timestamp |-> current_time,
                  local_acceleration |-> local_accel,
                  global_acceleration |-> global_accel,
                  local_gyroscope |-> local_gyro,
                  raw_acceleration |-> raw_local_accel,
                  raw_gyroscope |-> raw_local_gyro,
                  euler_rates |-> euler_rates,
                  gravity_corrected_gyro |-> gravity_corrected_gyro,
                  velocity |-> new_velocity,
                  quaternion |-> quaternion,
                  button |-> parsed_data.button,
                  energy |-> calculate_kinetic_energy(new_velocity, euler_rates)]]

\* reset_velocity(): the velocity it leaves
reset_velocity == << 0, 0, 0 >>


-----------------------------------------------------------------------------
(* JerkDetector (src/module/MotionAnalyzer.py) *)

trigger_threshold_default == 100000
zero_threshold_default == 10000
minimum_duration_default == 3

JerkDefaults ==
    [trigger_threshold |-> trigger_threshold_default,
     zero_threshold |-> zero_threshold_default,
     minimum_duration |-> minimum_duration_default]

\* Python's truth value of an optional number: None and 0.0 are both false
Truthy(opt) == opt # None /\ opt[1] # 0

IsPresent(opt) == opt # None

\* np.sqrt(sum(a**2 for a in accel))
accel_magnitude(accel) ==
    FSqrt(FMul(accel[1], accel[1]) + FMul(accel[2], accel[2]) + FMul(accel[3], accel[3]))

\* a jerk taken from the level of the acceleration, not from its change
_calculate_jerk_of_level(accels, timestamps) ==
    LET n == Len(timestamps)
        dt == timestamps[n] - timestamps[n - 1]
    IN  IF dt > 0 THEN Abs(FDiv(accels[n], dt)) ELSE 0

\* _calculate_jerk on the histories as they are after the append
_calculate_jerk(accels, timestamps) ==
    LET n == Len(timestamps)
        dt == timestamps[n] - timestamps[n - 1]
    IN  IF dt > 0 THEN Abs(FDiv(accels[n] - accels[n - 1], dt)) ELSE 0

\* a detector that starts an episode again while one is running
_detect_snap_retriggered(state, thresholds, jerk_magnitude, timestamp) ==
    IF jerk_magnitude > thresholds.trigger_threshold
    THEN LET result == [type |-> "jerk_start", timestamp |-> timestamp,
                        jerk_magnitude |-> jerk_magnitude]
         IN  [state |-> [state EXCEPT !.is_high_jerk = TRUE,
                                      !.high_jerk_start_time = Some(timestamp)],
              ret |-> Some(result), notified |-> << result >>, raised |-> FALSE]
    ELSE IF state.is_high_jerk /\ jerk_magnitude < thresholds.zero_threshold
    THEN LET duration == timestamp - state.high_jerk_start_time[1]
             result == [type |-> "snap_detected", timestamp |-> timestamp,
                        duration |-> duration,
                        interval |-> IF Truthy(state.last_snap_time)
                                     THEN Some(timestamp - state.last_snap_time[1])
                                     ELSE None]
         IN  IF duration >= thresholds.minimum_duration
             THEN [state |-> [is_high_jerk |-> FALSE, high_jerk_start_time |-> None,
                              last_snap_time |-> Some(timestamp)],
                   ret |-> Some(result), notified |-> << result >>, raised |-> FALSE]
             ELSE [state |-> [state EXCEPT !.is_high_jerk = FALSE,
                                           !.high_jerk_start_time = None],
                   ret |-> None, notified |-> << >>, raised |-> TRUE]
    ELSE [state |-> state, ret |-> None, notified |-> << >>, raised |-> FALSE]

\* a detector that triggers at the threshold itself
_detect_snap_inclusive(state, thresholds, jerk_magnitude, timestamp) ==
    IF ~state.is_high_jerk /\ jerk_magnitude >= thresholds.trigger_threshold
    THEN LET result == [type |-> "jerk_start", timestamp |-> timestamp,
                        jerk_magnitude |-> jerk_magnitude]
         IN  [state |-> [state EXCEPT !.is_high_jerk = TRUE,
                                      !.high_jerk_start_time = Some(timestamp)],
              ret |-> Some(result), notified |-> << result >>, raised |-> FALSE]
    ELSE IF state.is_high_jerk /\ jerk_magnitude < thresholds.zero_threshold
    THEN LET duration == timestamp - state.high_jerk_start_time[1]
             result == [type |-> "snap_detected", timestamp |-> timestamp,
                        duration |-> duration,
                        interval |-> IF Truthy(state.last_snap_time)
                                     THEN Some(timestamp - state.last_snap_time[1])
                                     ELSE None]
         IN  IF duration >= thresholds.minimum_duration
             THEN [state |-> [is_high_jerk |-> FALSE, high_jerk_start_time |-> None,
                              last_snap_time |-> Some(timestamp)],
                   ret |-> Some(result), notified |-> << result >>, raised |-> FALSE]
             ELSE [state |-> [state EXCEPT !.is_high_jerk = FALSE,
                                           !.high_jerk_start_time = None],
                   ret |-> None, notified |-> << >>, raised |-> TRUE]
    ELSE [state |-> state, ret |-> None, notified |-> << >>, raised |-> FALSE]

\* a detector that measures an episode from the previous sample, not from its Start
_detect_snap_from_previous(state, thresholds, jerk_magnitude, timestamp) ==
    IF ~state.is_high_jerk /\ jerk_magnitude > thresholds.trigger_threshold
    THEN LET result == [type |-> "jerk_start", timestamp |-> timestamp,
                        jerk_magnitude |-> jerk_magnitude]
         IN  [state |-> [state EXCEPT !.is_high_jerk = TRUE,
                                      !.high_jerk_start_time = Some(timestamp)],
              ret |-> Some(result), notified |-> << result >>, raised |-> FALSE]
    ELSE IF state.is_high_jerk /\ jerk_magnitude < thresholds.zero_threshold
    THEN LET result == [type |-> "snap_detected", timestamp |-> timestamp,
                        duration |-> timestamp - timestamp_history[Len(timestamp_history)],
                        interval |-> None]
         IN  [state |-> [is_high_jerk |-> FALSE, high_jerk_start_time |-> None,
                         last_snap_time |-> Some(timestamp)],
              ret |-> Some(result), notified |-> << result >>, raised |-> FALSE]
    ELSE [state |-> state, ret |-> None, notified |-> << >>, raised |-> FALSE]

(* _detect_snap: the jerk_state it leaves, what it returns (ret), the      *)
(* results it hands to notify, and whether it raises.  In the branch that  *)
(* leaves the high-jerk state, `result` is bound only when the duration    *)
(* reaches minimum_duration; `return result` on the other path raises      *)
(* UnboundLocalError after the state has been reset.                       *)
_detect_snap(state, thresholds, jerk_magnitude, timestamp) ==
    IF ~state.is_high_jerk /\ jerk_magnitude > thresholds.trigger_threshold
    THEN LET result == [type |-> "jerk_start", timestamp |-> timestamp,
                        jerk_magnitude |-> jerk_magnitude]
         IN  [state |-> [state EXCEPT !.is_high_jerk = TRUE,
                                      !.high_jerk_start_time = Some(timestamp)],
              ret |-> Some(result), notified |-> << result >>, raised |-> FALSE]
    ELSE IF state.is_high_jerk /\ jerk_magnitude < thresholds.zero_threshold
    THEN LET duration == timestamp - state.high_jerk_start_time[1]
             result == [type |-> "snap_detected", timestamp |-> timestamp,
                        duration |-> duration,
                        interval |-> IF Truthy(state.last_snap_time)
                                     THEN Some(timestamp - state.last_snap_time[1])
                                     ELSE None]
         IN  IF duration >= thresholds.minimum_duration
             THEN [state |-> [is_high_jerk |-> FALSE, high_jerk_start_time |-> None,
                              last_snap_time |-> Some(timestamp)],
                   ret |-> Some(result), notified |-> << result >>, raised |-> FALSE]
             ELSE [state |-> [state EXCEPT !.is_high_jerk = FALSE,
                                           !.high_jerk_start_time = None],
                   ret |-> None, notified |-> << >>, raised |-> TRUE]
    ELSE [state |-> state, ret |-> None, notified |-> << >>, raised |-> FALSE]

(* JerkDetector.process(processed_data, timestamp): the detector's fields   *)
(* after the call and its outcome.                                          *)
jerk_process(processed_data, timestamp) ==
    LET magnitude == accel_magnitude(processed_data.global_acceleration)
        accels == DequeAppend(accel_history, magnitude, JERK_MAXLEN)
        timestamps == DequeAppend(timestamp_history, timestamp, JERK_MAXLEN)
        computed == Len(accels) >= 2
        jerk_magnitude == IF computed THEN _calculate_jerk(accels, timestamps) ELSE 0
        snap == IF computed
                THEN _detect_snap(jerk_state, jerk_thresholds, jerk_magnitude, timestamp)
                ELSE [state |-> jerk_state, ret |-> None, notified |-> << >>,
                      raised |-> FALSE]
    IN  [accel_history |-> accels,
         timestamp_history |-> timestamps,
         jerk_state |-> snap.state,
         computed |-> computed,
         jerk_magnitude |-> jerk_magnitude,
         ret |-> snap.ret,
         notified |-> snap.notified,
         raised |-> snap.raised]


-----------------------------------------------------------------------------
(* EnergyDetector (src/module/MotionAnalyzer.py) *)

velocity_threshold_default == 10
angular_threshold_default == 4000000

EnergyDefaults ==
    [velocity |-> << velocity_threshold_default, velocity_threshold_default,
                     velocity_threshold_default >>,
     angular |-> << angular_threshold_default, angular_threshold_default,
                    angular_threshold_default >>]

AxisName(i) == << "x", "y", "z" >>[i]

RECURSIVE ActiveChannelsOfVelocity(_, _, _)
\* a detector that looks at the velocity only
ActiveChannelsOfVelocity(vel_energies, angular_energies, i) ==
    IF i > 3 THEN << >>
    ELSE (IF vel_energies[i] > energy_thresholds.velocity[i]
          THEN << << "vel", AxisName(i) >> >> ELSE << >>)
         \o ActiveChannelsOfVelocity(vel_energies, angular_energies, i + 1)

RECURSIVE ActiveChannels(_, _, _)
ActiveChannels(vel_energies, angular_energies, i) ==
    IF i > 3 THEN << >>
    ELSE (IF vel_energies[i] > energy_thresholds.velocity[i]
          THEN << << "vel", AxisName(i) >> >> ELSE << >>)
         \o (IF angular_energies[i] > energy_thresholds.angular[i]
             THEN << << "ang", AxisName(i) >> >> ELSE << >>)
         \o ActiveChannels(vel_energies, angular_energies, i + 1)

\* EnergyDetector.process: the result it returns and hands to notify
energy_process(processed_data, timestamp) ==
    LET vel_energies == [i \in Axes |-> FMul(processed_data.velocity[i],
                                             processed_data.velocity[i])]
        angular_energies == [i \in Axes |-> FMul(processed_data.euler_rates[i],
                                                 processed_data.euler_rates[i])]
        active_channels == ActiveChannels(vel_energies, angular_energies, 1)
    IN  [type |-> "energy",
         timestamp |-> timestamp,
         high_energy |-> Len(active_channels) > 0,
         active_channels |-> active_channels,
         vel_energies |-> vel_energies,
         angular_energies |-> angular_energies]

-----------------------------------------------------------------------------
(* FrequencyAnalyzer (src/module/MotionAnalyzer.py)                         *)
(*                                                                         *)
(* The analysis windows are the program's [64, 128, 256, 512, 1024] scaled *)
(* with the buffer capacity to [4, 6], sizes whose power spectrum is a     *)
(* rational function of the samples and is computed without a table of     *)
(* sines.  A window of 4 has one strictly positive frequency bin           *)
(* (sampling_rate / 4), a window of 6 has two (sampling_rate / 6 and       *)
(* sampling_rate / 3).                                                     *)

prominence_threshold_default == 70
entropy_threshold_default == 30
sampling_rate == 10000
bandwidth == 10

FreqDefaults ==
    [prominence |-> prominence_threshold_default, entropy |-> entropy_threshold_default]

window_sizes == << 4, 6 >>

\* the buffers after _update_buffers
_update_buffers(processed_data) ==
    [gyro |-> [a \in Axes |-> DequeAppend(gyro_buffers[a],
                                          processed_data.local_gyroscope[a],
                                          SPECTRAL_MAXLEN)],
     accel |-> [a \in Axes |-> DequeAppend(accel_buffers[a],
                                           processed_data.global_acceleration[a],
                                           SPECTRAL_MAXLEN)]]

\* the last n elements of a sequence: list(buffer_data)[-window_size:]
LastN(s, n) == SubSeq(s, Len(s) - n + 1, Len(s))

\* |re / 2 + i * sqrt(3) * im / 2|^2, the power of a bin of a window of 6
BinPower(re, im) == (re * re) \div (4 * Scale) + 3 * ((im * im) \div (4 * Scale))

\* np.abs(np.fft.fft(x))**2 on the strictly positive frequencies of a window
PositivePower(x) ==
    IF Len(x) = 4
    THEN << FMul(x[1] - x[3], x[1] - x[3]) + FMul(x[4] - x[2], x[4] - x[2]) >>
    ELSE IF Len(x) = 6
    THEN LET re1 == 2 * x[1] + x[2] - x[3] - 2 * x[4] - x[5] + x[6]
             im1 == x[2] + x[3] - x[5] - x[6]
             re2 == 2 * x[1] - x[2] - x[3] + 2 * x[4] - x[5] - x[6]
             im2 == x[2] - x[3] + x[5] - x[6]
         IN  << BinPower(re1, im1), BinPower(re2, im2) >>
    ELSE << >>

\* np.fft.fftfreq(window_size, 1/sampling_rate) restricted to frequencies > 0
PositiveFrequencies(window_size) ==
    IF window_size = 4 THEN << TruncDiv(sampling_rate, 4) >>
    ELSE IF window_size = 6
    THEN << TruncDiv(sampling_rate, 6), TruncDiv(2 * sampling_rate, 6) >>
    ELSE << >>

RECURSIVE ArgMaxFrom(_, _, _)
ArgMaxFrom(p, i, best) ==
    IF i > Len(p) THEN best
    ELSE ArgMaxFrom(p, i + 1, IF p[i] > p[best] THEN i ELSE best)

\* np.argmax: the first index of the maximum (indices from 1 here)
ArgMax(p) == ArgMaxFrom(p, 2, 1)

_refine_frequency(frequencies, power, peak_idx) ==
    IF peak_idx = 1 \/ peak_idx >= Len(power)
    THEN frequencies[peak_idx]
    ELSE LET y1 == power[peak_idx - 1]
             y2 == power[peak_idx]
             y3 == power[peak_idx + 1]
             a == TruncDiv(y1 - 2 * y2 + y3, 2)
         IN  IF a # 0
             THEN frequencies[peak_idx]
                  + FMul(FDiv(y1 - y3, 4 * a), frequencies[2] - frequencies[1])
             ELSE frequencies[peak_idx]

RECURSIVE MaskedSum(_, _, _, _)
MaskedSum(frequencies, power, peak_freq, i) ==
    IF i > Len(power) THEN 0
    ELSE (IF Abs(frequencies[i] - peak_freq) <= bandwidth THEN power[i] ELSE 0)
         + MaskedSum(frequencies, power, peak_freq, i + 1)

\* a prominence that takes a spectrum without power for a single peak
_calculate_prominence_of_silence(frequencies, power, peak_freq) ==
    LET peak_power == MaskedSum(frequencies, power, peak_freq, 1)
        total_power == SumSeq(power)
    IN  IF total_power > 0 THEN FDiv(peak_power, total_power) ELSE One

_calculate_prominence(frequencies, power, peak_freq) ==
    LET peak_power == MaskedSum(frequencies, power, peak_freq, 1)
        total_power == SumSeq(power)
    IN  IF total_power > 0 THEN FDiv(peak_power, total_power) ELSE 0

\* the binary exponent e with 100 <= p * 2^e < 200, for 0 < p <= 100
RECURSIVE Exponent(_)
Exponent(p) == IF p >= Scale THEN 0 ELSE 1 + Exponent(2 * p)

RECURSIVE Log2Bits(_, _, _)
RECURSIVE Log2Bit(_, _, _)
\* the next binary digit of a logarithm, from the square of the mantissa
Log2Bit(squared, i, acc) ==
    IF squared >= 20000
    THEN Log2Bits(squared \div 2, i + 1, 2 * acc + 1)
    ELSE Log2Bits(squared, i + 1, 2 * acc)

\* seven binary digits of log2(y / 10000) for 10000 <= y < 20000, by repeated squaring
Log2Bits(y, i, acc) ==
    IF i > 7 THEN acc ELSE Log2Bit((y * y) \div 10000, i, acc)

RECURSIVE TwoToThe(_)
TwoToThe(e) == IF e = 0 THEN 1 ELSE 2 * TwoToThe(e - 1)

\* log2 of p / 100 = (p * 2^e / 100) / 2^e
Log2WithExponent(p, e) ==
    (Log2Bits(p * TwoToThe(e) * Scale, 1, 0) * Scale) \div 128 - e * Scale

\* np.log2 of a fraction 0 < p <= 1 (p is 1..100), to two decimals
Log2(p) == Log2WithExponent(p, Exponent(p))

\* log2 of a count of bins; the windows of this model have one bin or two
Log2OfLen(n) == IF n = 1 THEN 0 ELSE One

\* power / (np.sum(power) + 1e-10)
Normalized(power, total) ==
    [i \in 1..Len(power) |-> IF total > 0 THEN FDiv(power[i], total) ELSE 0]

\* p * np.log2(p + 1e-10)
PLogP(p) == IF p > 0 THEN FMul(p, Log2(p)) ELSE 0

NormalizedEntropy(power_norm, max_entropy) ==
    IF max_entropy > 0
    THEN FDiv(-SumSeq([i \in 1..Len(power_norm) |-> PLogP(power_norm[i])]), max_entropy)
    ELSE One

(* _calculate_entropy.  The 1e-10 of the program is below two decimals: a  *)
(* bin of share 0 contributes 0 * log2(1e-10) = 0, and with zero total     *)
(* power every share is 0.                                                 *)
_calculate_entropy(power) ==
    NormalizedEntropy(Normalized(power, SumSeq(power)), Log2OfLen(Len(power)))

\* the body of `if confidence > best_result['confidence']`
KeepBetter(window_size, raw_frequency, refined_frequency, prominence, entropy, confidence, best_result) ==
    IF confidence > best_result.confidence
    THEN [detected |-> TRUE, frequency |-> refined_frequency,
          raw_frequency |-> raw_frequency, prominence |-> prominence,
          entropy |-> entropy, confidence |-> confidence, window_size |-> window_size]
    ELSE best_result

\* the threshold check of a window
CheckThresholds(window_size, raw_frequency, refined_frequency, prominence, entropy, best_result) ==
    IF prominence > freq_thresholds.prominence /\ entropy < freq_thresholds.entropy
    THEN KeepBetter(window_size, raw_frequency, refined_frequency, prominence, entropy,
                    FMul(prominence, One - entropy), best_result)
    ELSE best_result

\* the reliability of the refined peak of a window
AnalyzePeak(window_size, freq_pos, power_pos, raw_frequency, refined_frequency, best_result) ==
    CheckThresholds(window_size, raw_frequency, refined_frequency,
                    _calculate_prominence(freq_pos, power_pos, refined_frequency),
                    _calculate_entropy(power_pos), best_result)

\* the peak of the spectrum of a window and its refinement
AnalyzeSpectrum(window_size, freq_pos, power_pos, peak_idx, best_result) ==
    AnalyzePeak(window_size, freq_pos, power_pos, freq_pos[peak_idx],
                _refine_frequency(freq_pos, power_pos, peak_idx), best_result)

\* one turn of the loop over the window sizes: best_result after the window
AnalyzeWindow(window_size, freq_pos, power_pos, best_result) ==
    IF Len(power_pos) = 0 THEN best_result
    ELSE AnalyzeSpectrum(window_size, freq_pos, power_pos, ArgMax(power_pos), best_result)

RECURSIVE AnalyzeWindows(_, _, _)
\* the loop over the window sizes, from the k-th on
AnalyzeWindows(buffer_data, k, best_result) ==
    IF k > Len(window_sizes) THEN best_result
    ELSE IF Len(buffer_data) < window_sizes[k]
    THEN AnalyzeWindows(buffer_data, k + 1, best_result)
    ELSE AnalyzeWindows(buffer_data, k + 1,
             AnalyzeWindow(window_sizes[k], PositiveFrequencies(window_sizes[k]),
                           PositivePower(LastN(buffer_data, window_sizes[k])),
                           best_result))

\* an analysis that fills a short history with zeros instead of waiting for it
_analyze_axis_padded(buffer_data) ==
    LET longest == window_sizes[Len(window_sizes)]
        padded == IF Len(buffer_data) < longest
                  THEN [i \in 1..(longest - Len(buffer_data)) |-> 0] \o buffer_data
                  ELSE buffer_data
    IN  AnalyzeWindows(padded, 1, [detected |-> FALSE, confidence |-> 0])

_analyze_axis(buffer_data) ==
    IF Len(buffer_data) < window_sizes[1]
    THEN [detected |-> FALSE, reason |-> "insufficient_data"]
    ELSE AnalyzeWindows(buffer_data, 1, [detected |-> FALSE, confidence |-> 0])

\* a selection that keeps the detection analysed last
RECURSIVE LastDetection(_, _)
LastDetection(detections, best) ==
    IF detections = << >> THEN best
    ELSE LastDetection(Tail(detections), Head(detections))

\* max(all_detections, key=confidence): the first detection of the highest confidence
RECURSIVE MaxConfidence(_, _)
MaxConfidence(detections, best) ==
    IF detections = << >> THEN best
    ELSE MaxConfidence(Tail(detections),
                       IF Head(detections).confidence > best.confidence
                       THEN Head(detections) ELSE best)

\* the result of _detect_periodicity, given the detections and the best of them
PeriodicityResult(timestamp, gyro_results, accel_results, detected, best_detection) ==
    [type |-> "frequency",
     timestamp |-> timestamp,
     detected |-> detected,
     best_frequency |-> IF detected THEN best_detection.frequency ELSE 0,
     best_confidence |-> IF detected THEN best_detection.confidence ELSE 0,
     gyro_results |-> gyro_results,
     accel_results |-> accel_results]

\* the selection of the best detection: `if all_detections:` and its body
SelectBest(timestamp, gyro_results, accel_results, all_detections) ==
    IF all_detections # << >>
    THEN PeriodicityResult(timestamp, gyro_results, accel_results, TRUE,
                           MaxConfidence(Tail(all_detections), Head(all_detections)))
    ELSE PeriodicityResult(timestamp, gyro_results, accel_results, FALSE,
                           [detected |-> FALSE])

\* the detections among the axis results, gyroscope first, x, y, z
CollectDetections(timestamp, gyro_results, accel_results) ==
    SelectBest(timestamp, gyro_results, accel_results,
               SelectSeq(gyro_results \o accel_results, LAMBDA r : r.detected))

\* _detect_periodicity on the given buffers
_detect_periodicity(buffers, timestamp) ==
    CollectDetections(timestamp,
                      [a \in Axes |-> _analyze_axis(buffers.gyro[a])],
                      [a \in Axes |-> _analyze_axis(buffers.accel[a])])

\* the end of process: notify the result if it is detected, and return it
NotifyDetected(buffers, result) ==
    [gyro_buffers |-> buffers.gyro,
     accel_buffers |-> buffers.accel,
     ret |-> result,
     notified |-> IF result.detected THEN << result >> ELSE << >>]

DetectAndNotify(buffers, timestamp) ==
    NotifyDetected(buffers, _detect_periodicity(buffers, timestamp))

(* FrequencyAnalyzer.process: the buffers after the call, the result, and   *)
(* the results handed to notify (the result, when it is detected).          *)
frequency_process(processed_data, timestamp) ==
    DetectAndNotify(_update_buffers(processed_data), timestamp)

-----------------------------------------------------------------------------
(* data_collect (src/data_collect.py): the recording loop.  Its globals    *)
(* are kept in one record; `saved` holds the sessions handed to            *)
(* save_session_to_csv, a row is kept as its timestamp, button and         *)
(* integrated velocity.                                                    *)

lowcut_q == 95

InitRecorder ==
    [is_recording |-> FALSE,
     current_session_data |-> << >>,
     session_counter |-> 0,
     velocity |-> << 0, 0, 0 >>,
     last_timestamp |-> None,
     saved |-> << >>]

\* sensor_math.SensorMath.lowcut_integration
lowcut_integration(previous_velocity, current_accel, dt, q) ==
    FMul(q, previous_velocity) + FMul(dt, current_accel)

\* the velocity after the integration step of transform_sensor_data
IntegratedVelocity(v, global_accel, dt) ==
    IF dt > 0
    THEN [i \in Axes |-> lowcut_integration(v[i], global_accel[i], dt, lowcut_q)]
    ELSE v

\* transform_sensor_data: the velocity and the last timestamp it leaves
transform_sensor_data(r, parsed_data, current_time) ==
    [r EXCEPT
        !.velocity = IF r.last_timestamp # None
                     THEN IntegratedVelocity(r.velocity,
                              transform_to_global(parsed_data.acceleration,
                                                  parsed_data.quaternion),
                              current_time - r.last_timestamp[1])
                     ELSE r.velocity,
        !.last_timestamp = Some(current_time)]

\* a start that keeps the integrator as the earlier session left it
start_recording_unreset(r) ==
    [r EXCEPT !.is_recording = TRUE,
              !.current_session_data = << >>,
              !.session_counter = @ + 1]

\* the branch `if button_pressed and not is_recording`
start_recording(r) ==
    [r EXCEPT !.is_recording = TRUE,
              !.current_session_data = << >>,
              !.session_counter = @ + 1,
              !.velocity = << 0, 0, 0 >>,
              !.last_timestamp = None]

\* the branch `elif not button_pressed and is_recording`, with save_session_to_csv
stop_recording(r) ==
    [r EXCEPT !.is_recording = FALSE,
              !.saved = IF r.current_session_data # << >>
                        THEN Append(@, [session_id |-> r.session_counter,
                                        rows |-> r.current_session_data])
                        ELSE @]

\* the start and stop of recording on the button
toggle_recording(r, button_pressed) ==
    IF button_pressed /\ ~r.is_recording THEN start_recording(r)
    ELSE IF ~button_pressed /\ r.is_recording THEN stop_recording(r)
    ELSE r

\* current_session_data.append(data_row), given the recorder after the transformation
append_row(r, parsed_data, current_time) ==
    [r EXCEPT !.current_session_data =
                  Append(@, [timestamp |-> current_time,
                             button |-> parsed_data.button,
                             velocity |-> r.velocity])]

\* the branch `if is_recording and button_pressed`
record_sample(r, parsed_data, current_time, button_pressed) ==
    IF r.is_recording /\ button_pressed
    THEN append_row(transform_sensor_data(r, parsed_data, current_time),
                    parsed_data, current_time)
    ELSE r

-----------------------------------------------------------------------------
(* The LED commands of GyroStickReceiver (src/module/SensorReceiver.py).   *)
(* A command 'LED 0,r,g,b' is kept as << r, g, b >>; `led` is the command  *)
(* sent last, the colour the stick shows; `keyboard` and `data` are the    *)
(* statements the keyboard thread and the receiving thread are at.         *)

InitDevice ==
    [led_enabled |-> TRUE,
     clients |-> None,
     led |-> None,
     keyboard |-> "input",
     data |-> [pc |-> "receive", color |-> << 0, 0, 0 >>]]

LedOff == << 0, 0, 0 >>

\* send_command: nothing is sent before a client is known
send_command(d, command) ==
    IF d.clients # None THEN [d EXCEPT !.led = Some(command)] ELSE d

\* the device once the first datagram has made the stick known
Connected(d) == [d EXCEPT !.clients = Some("stick")]

-----------------------------------------------------------------------------
(* MotionLEDController (src/module/MotionLEDController.py).  The threads   *)
(* are kept in a sequence: the first is the caller of the controller, the  *)
(* others are the loop and flash threads it has started.  `pc` is the      *)
(* statement a thread is at; `mode` and `frequency` are the arguments of   *)
(* the animation it starts or runs.  A mode is a name with the frequency   *)
(* of a pulse in tenths: 'pulse_1.0' is << "pulse", 10 >>.                 *)

Idle == << "idle", 0 >>
Fantasy == << "fantasy", 0 >>

\* f'pulse_{frequency:.1f}'
pulse_mode(frequency) == << "pulse", (frequency + 5) \div 10 >>

max_frequency == 300

\* frequency_to_color: from the mean of the palette to red at max_frequency
frequency_to_color(frequency) ==
    IF frequency >= max_frequency THEN << 255, 0, 0 >>
    ELSE << (12500 * (max_frequency - frequency) + 25500 * frequency) \div (max_frequency * Scale),
            (24125 * (max_frequency - frequency)) \div (max_frequency * Scale),
            (20875 * (max_frequency - frequency)) \div (max_frequency * Scale) >>

\* the colour a loop sends: the first of the palette, or the colour of the frequency
LoopColor(th) ==
    IF th.kind = "fantasy" THEN << 100, 255, 200 >> ELSE frequency_to_color(th.frequency)

\* int(255 * (1 - i/20)), for a fade of FadeSteps steps
FadeIntensity(i) == (255 * (FadeSteps - i)) \div FadeSteps

Thread(kind, pc, mode, frequency) ==
    [kind |-> kind, pc |-> pc, op |-> "none", mode |-> mode, frequency |-> frequency,
     i |-> 0, interrupted |-> FALSE, call |-> 0]

InitController ==
    [is_animating |-> FALSE,
     animation_thread |-> None,
     animation_stop_flag |-> FALSE,
     current_mode |-> Idle,
     threads |-> << Thread("main", "idle", Idle, 0) >>]

IsLoop(th) == th.kind \in { "fantasy", "pulse" }

\* threading.Thread.is_alive of the thread animation_thread refers to
AnimationThreadAlive(c) ==
    c.animation_thread # None /\ c.threads[c.animation_thread[1]].pc # "done"

\* the thread after the method it runs has returned
Returned(th) == [th EXCEPT !.pc = IF th.kind = "main" THEN "idle" ELSE "done"]

-----------------------------------------------------------------------------
(* State after construction *)

EmptySma ==
    [quaternion |-> << << >>, << >>, << >>, << >> >>,
     acceleration |-> << << >>, << >>, << >> >>,
     gyroscope |-> << << >>, << >>, << >> >>]

InitJerkState ==
    [is_high_jerk |-> FALSE, high_jerk_start_time |-> None, last_snap_time |-> None]

Objects ==
    /\ sma = EmptySma
    /\ last_time = None
    /\ velocity = << 0, 0, 0 >>
    /\ prev_accel = None
    /\ energy_thresholds = EnergyDefaults
    /\ freq_thresholds = FreqDefaults
    /\ gyro_buffers = << << >>, << >>, << >> >>
    /\ accel_buffers = << << >>, << >>, << >> >>
    /\ jerk_thresholds = JerkDefaults
    /\ accel_history = << >>
    /\ timestamp_history = << >>
    /\ jerk_state = InitJerkState
    /\ results_history = << >>
    /\ clock = One
    /\ last = [op |-> "init"]
    /\ fed = [frequency |-> << >>, jerk |-> << >>, starts |-> << >>, snaps |-> << >>,
              episodes |-> << >>]
    /\ ncalls = 0
    /\ nconfig = 0
    /\ received = << >>
    /\ delivered = << >>
    /\ reported = << >>
    /\ callbacks = << >>
    /\ invoked = << >>
    /\ recorder = InitRecorder
    /\ controller = InitController
    /\ device = InitDevice

Constructed == Objects /\ stream = None /\ input = None

-----------------------------------------------------------------------------
(* Inputs.  Quaternions are of the form (w, 0, 0, z): rotations about the  *)
(* z axis, the unnormalised and the zero quaternion included.              *)

Sample(b, q, a, g) == [button |-> b, quaternion |-> q, acceleration |-> a, gyroscope |-> g]

Samples ==
    { Sample(0, << 100, 0, 0, 0 >>, << 0, 0, 0 >>, << 0, 0, 0 >>),
      Sample(0, << 200, 0, 0, 0 >>, << 2400, 0, 0 >>, << 0, 0, 25000 >>),
      Sample(1, << 0, 0, 0, 100 >>, << 2400, 10, -1200 >>, << 0, 6000, 0 >>),
      Sample(0, << 0, 0, 0, 0 >>, << 0, 0, 4800 >>, << 4000, 0, 0 >>) }

-----------------------------------------------------------------------------
(* The integrator on its own: process_sensor_data with any timestamps, and *)
(* reset_velocity.                                                         *)

\* the global acceleration of the sample processed most recently, if any
SeenAcceleration == IF "seen" \in DOMAIN last THEN last.seen ELSE None

ProcessSensorData(parsed_data, current_time) ==
    /\ ncalls < MaxCalls
    /\ \E r \in { process_sensor_data(parsed_data, current_time) } :
           /\ sma' = r.sma
           /\ velocity' = r.velocity
           /\ prev_accel' = r.prev_accel
           /\ last_time' = r.last_time
           /\ last' = [op |-> "process_sensor_data",
                       parsed_data |-> parsed_data,
                       current_time |-> current_time,
                       last_time_before |-> last_time,
                       velocity_before |-> velocity,
                       prev_accel_before |-> prev_accel,
                       after_reset |-> last.op = "reset_velocity",
                       seen_before |-> SeenAcceleration,
                       seen |-> Some(r.ret.global_acceleration),
                       ret |-> r.ret]
    /\ ncalls' = ncalls + 1
    /\ UNCHANGED <<energyVars, freqVars, jerkVars, pipeVars, fed, stream, auxVars, nconfig>>

ResetVelocity ==
    /\ velocity' = reset_velocity
    /\ last' = [op |-> "reset_velocity", seen |-> SeenAcceleration]
    /\ UNCHANGED <<sma, last_time, prev_accel, energyVars, freqVars, jerkVars, pipeVars,
                   fed, stream, auxVars, ncalls, nconfig>>

IntegratorNext ==
    \/ \E parsed_data \in Samples, current_time \in 0..MaxTime :
           ProcessSensorData(parsed_data, current_time)
    \/ ResetVelocity

IntegratorSpec == Constructed /\ [][IntegratorNext]_vars

-----------------------------------------------------------------------------
(* thresholds.update(kwargs): the keys given replace the stored ones *)

\* an update that is dropped
KeepThresholds(thresholds, kwargs) == thresholds

Update(thresholds, kwargs) ==
    [k \in DOMAIN thresholds |-> IF k \in DOMAIN kwargs THEN kwargs[k] ELSE thresholds[k]]

\* the values of the example at the end of MotionAnalyzer.py, and a shorter minimum
JerkConfigs ==
    { [trigger_threshold |-> 80000, zero_threshold |-> 10000, minimum_duration |-> 3],
      [minimum_duration |-> 1] }

EnergyConfigs ==
    { [velocity |-> << 10, 10, 1000 >>] }

FrequencyConfigs ==
    { [prominence |-> 50, entropy |-> 150] }

-----------------------------------------------------------------------------
(* The jerk detector on its own: process with any timestamps (advancing,   *)
(* stalled, going back), thresholds reconfigured between calls.            *)

JerkData ==
    { [global_acceleration |-> << 0, 0, 0 >>],
      [global_acceleration |-> << 2400, 0, 0 >>] }

\* the timestamp of an event of the given type returned by the jerk detector
EventTimestamps(ret, type) ==
    IF ret # None /\ ret[1].type = type THEN << ret[1].timestamp >> ELSE << >>

FirstTimestamps == { -4, 0 }
TimeSteps == { -1, 0, 1, 3 }

NextTimestamps ==
    IF timestamp_history = << >> THEN FirstTimestamps
    ELSE { timestamp_history[Len(timestamp_history)] + d : d \in TimeSteps }

(* What a call of the jerk detector did to the episode: the event it      *)
(* returned ("start", "snap"), or "end" when it left the high-jerk state   *)
(* without returning one.                                                  *)
EpisodeMarks(state_before, state_after, ret) ==
    IF ret # None /\ ret[1].type = "jerk_start" THEN << "start" >>
    ELSE IF ret # None /\ ret[1].type = "snap_detected" THEN << "snap" >>
    ELSE IF state_before.is_high_jerk /\ ~state_after.is_high_jerk THEN << "end" >>
    ELSE << >>

JerkCall(processed_data, timestamp, r) ==
    /\ accel_history' = r.accel_history
    /\ timestamp_history' = r.timestamp_history
    /\ jerk_state' = r.jerk_state
    /\ last' = [op |-> "jerk_process",
                timestamp |-> timestamp,
                state_before |-> jerk_state,
                thresholds |-> jerk_thresholds,
                computed |-> r.computed,
                jerk_magnitude |-> r.jerk_magnitude,
                ret |-> r.ret,
                notified |-> r.notified,
                raised |-> r.raised]
    /\ fed' = [fed EXCEPT
                   !.jerk = Append(@, << timestamp,
                                         accel_magnitude(processed_data.global_acceleration) >>),
                   !.starts = @ \o EventTimestamps(r.ret, "jerk_start"),
                   !.snaps = @ \o EventTimestamps(r.ret, "snap_detected"),
                   !.episodes = @ \o EpisodeMarks(jerk_state, r.jerk_state, r.ret)]
    /\ ncalls' = ncalls + 1
    /\ UNCHANGED <<procVars, energyVars, freqVars, jerk_thresholds, pipeVars, nconfig>>

JerkProcess(processed_data, timestamp) ==
    /\ ncalls < MaxJerkCalls
    /\ \E r \in { jerk_process(processed_data, timestamp) } :
           JerkCall(processed_data, timestamp, r)
    /\ UNCHANGED <<stream, auxVars>>

ConfigureJerkDetector(kwargs) ==
    /\ nconfig < MaxConfig
    /\ jerk_thresholds' = Update(jerk_thresholds, kwargs)
    /\ nconfig' = nconfig + 1
    /\ last' = [op |-> "configure_jerk_detector", kwargs |-> kwargs,
                state_before |-> jerk_state]
    /\ UNCHANGED <<procVars, energyVars, freqVars, accel_history, timestamp_history,
                   jerk_state, pipeVars, fed, stream, auxVars, ncalls>>

JerkNext ==
    \/ \E processed_data \in JerkData, timestamp \in NextTimestamps :
           JerkProcess(processed_data, timestamp)
    \/ \E kwargs \in JerkConfigs : ConfigureJerkDetector(kwargs)

JerkSpec == Constructed /\ [][JerkNext]_vars

-----------------------------------------------------------------------------
(* A step stream into the jerk detector: samples at a fixed period, the    *)
(* acceleration magnitude 0 for `lead` samples, `level` for `hold`         *)
(* samples, then 0 again for two samples.                                  *)

StepPeriods == { 1, 3 }
StepLevels == { 4800, 9600 }
StepLeads == { 1, 2 }
StepTail == 2

StepStreams ==
    { [period |-> p, hold |-> h, level |-> l, lead |-> d, sent |-> 0,
       events |-> << >>, raises |-> 0] :
          p \in StepPeriods, h \in 1..MaxHold, l \in StepLevels, d \in StepLeads }

StepLength(st) == st.lead + st.hold + StepTail

StepMagnitude(st, i) == IF st.lead <= i /\ i < st.lead + st.hold THEN st.level ELSE 0

StepFeed ==
    /\ stream # None
    /\ stream[1].sent < StepLength(stream[1])
    /\ LET st == stream[1]
           i == st.sent
           timestamp == i * st.period
           processed_data == [global_acceleration |-> << StepMagnitude(st, i), 0, 0 >>]
       IN  \E r \in { jerk_process(processed_data, timestamp) } :
               /\ JerkCall(processed_data, timestamp, r)
               /\ stream' = Some([st EXCEPT !.sent = i + 1,
                                            !.events = @ \o r.ret,
                                            !.raises = @ + (IF r.raised THEN 1 ELSE 0)])
    /\ UNCHANGED auxVars

StepInit ==
    /\ Objects
    /\ stream \in { Some(st) : st \in StepStreams }
    /\ input = None

StepSpec == StepInit /\ [][StepFeed]_vars

-----------------------------------------------------------------------------
(* The two buffered detectors fed directly, one call at a time, each with  *)
(* the number of its earlier calls as timestamp.                           *)

FeedData ==
    { [local_gyroscope |-> << 100, 200, 300 >>, global_acceleration |-> << 0, 0, 0 >>],
      [local_gyroscope |-> << 0, 0, 6000 >>, global_acceleration |-> << 2400, 500, 700 >>] }

\* FrequencyAnalyzer.process called directly
FrequencyCall(processed_data) ==
    /\ \E timestamp \in { Len(fed.frequency) } :
       \E r \in { frequency_process(processed_data, timestamp) } :
           /\ gyro_buffers' = r.gyro_buffers
           /\ accel_buffers' = r.accel_buffers
           /\ last' = [op |-> "frequency_process", timestamp |-> timestamp,
                       ret |-> r.ret, notified |-> r.notified, raised |-> FALSE]
    /\ fed' = [fed EXCEPT !.frequency = Append(@, processed_data)]
    /\ ncalls' = ncalls + 1
    /\ UNCHANGED <<procVars, energyVars, freq_thresholds, jerkVars, pipeVars, stream, auxVars, nconfig>>

FeedFrequency(processed_data) ==
    /\ ncalls < MaxFeed
    /\ FrequencyCall(processed_data)

FeedJerk(processed_data) ==
    /\ ncalls < MaxFeed
    /\ \E timestamp \in { Len(fed.jerk) } :
       \E r \in { jerk_process(processed_data, timestamp) } :
           JerkCall(processed_data, timestamp, r)
    /\ UNCHANGED <<stream, auxVars>>

FeedNext ==
    \/ \E processed_data \in FeedData : FeedFrequency(processed_data)
    \/ \E processed_data \in FeedData : FeedJerk(processed_data)

FeedSpec == Constructed /\ [][FeedNext]_vars

-----------------------------------------------------------------------------
(* MotionAnalysisPipeline (src/module/MotionAnalyzer.py): one call of       *)
(* _on_data_received per valid datagram.  The receive loop catches what    *)
(* the callback raises and goes on with the next datagram.                 *)

RESULTS_MAXLEN == 1000

ClockSteps == { 0, 1, 3 }

\* _on_data_received at the time `elapsed` after the previous reading of the clock
_on_data_received(parsed_data, elapsed) ==
    /\ clock' = clock + elapsed
    /\ \E current_time \in { clock + elapsed } :
       \E p \in { process_sensor_data(parsed_data, current_time) } :
       \E energy_result \in { energy_process(p.ret, current_time) } :
       \E f \in { frequency_process(p.ret, current_time) } :
       \E j \in { jerk_process(p.ret, current_time) } :
           /\ sma' = p.sma
           /\ velocity' = p.velocity
           /\ prev_accel' = p.prev_accel
           /\ last_time' = p.last_time
           /\ gyro_buffers' = f.gyro_buffers
           /\ accel_buffers' = f.accel_buffers
           /\ accel_history' = j.accel_history
           /\ timestamp_history' = j.timestamp_history
           /\ jerk_state' = j.jerk_state
           /\ results_history' =
                  IF j.raised THEN results_history
                  ELSE DequeAppend(results_history,
                                   [timestamp |-> current_time,
                                    energy |-> energy_result,
                                    frequency |-> f.ret,
                                    jerk |-> j.ret],
                                   RESULTS_MAXLEN)
           /\ last' = [op |-> "_on_data_received",
                       current_time |-> current_time,
                       processed_data |-> p.ret,
                       energy |-> energy_result,
                       frequency |-> f.ret,
                       jerk |-> j.ret,
                       state_before |-> jerk_state,
                       computed |-> j.computed,
                       jerk_magnitude |-> j.jerk_magnitude,
                       previous |-> last.op,
                       notified |-> [energy |-> << energy_result >>,
                                     frequency |-> f.notified,
                                     jerk |-> j.notified],
                       raised |-> j.raised,
                       recorded |-> IF j.raised THEN 0 ELSE 1]
           /\ fed' = [frequency |-> Append(fed.frequency, p.ret),
                      jerk |-> Append(fed.jerk,
                          << current_time, accel_magnitude(p.ret.global_acceleration) >>),
                      starts |-> fed.starts \o EventTimestamps(j.ret, "jerk_start"),
                      snaps |-> fed.snaps \o EventTimestamps(j.ret, "snap_detected"),
                      episodes |-> fed.episodes \o EpisodeMarks(jerk_state, j.jerk_state, j.ret)]
    /\ ncalls' = ncalls + 1
    /\ UNCHANGED <<energyVars, freq_thresholds, jerk_thresholds, stream, input, notifyVars, hostVars,
                   nconfig>>

OnDataReceived(parsed_data, elapsed) ==
    /\ ncalls < MaxSamples
    /\ _on_data_received(parsed_data, elapsed)
    /\ UNCHANGED recvVars

ConfigureEnergyDetector(kwargs) ==
    /\ nconfig < MaxConfig
    /\ energy_thresholds' = Update(energy_thresholds, kwargs)
    /\ nconfig' = nconfig + 1
    /\ last' = [op |-> "configure_energy_detector", kwargs |-> kwargs]
    /\ UNCHANGED <<procVars, freqVars, jerkVars, pipeVars, fed, stream, auxVars, ncalls>>

ConfigureFrequencyAnalyzer(kwargs) ==
    /\ nconfig < MaxConfig
    /\ freq_thresholds' = Update(freq_thresholds, kwargs)
    /\ nconfig' = nconfig + 1
    /\ last' = [op |-> "configure_frequency_analyzer", kwargs |-> kwargs]
    /\ UNCHANGED <<procVars, energyVars, gyro_buffers, accel_buffers, jerkVars, pipeVars,
                   fed, stream, auxVars, ncalls>>

Next ==
    \/ \E parsed_data \in Samples, elapsed \in ClockSteps :
           OnDataReceived(parsed_data, elapsed)
    \/ \E kwargs \in EnergyConfigs : ConfigureEnergyDetector(kwargs)
    \/ \E kwargs \in FrequencyConfigs : ConfigureFrequencyAnalyzer(kwargs)
    \/ \E kwargs \in JerkConfigs : ConfigureJerkDetector(kwargs)

Spec == Constructed /\ [][Next]_vars

-----------------------------------------------------------------------------
(* MotionAnalyzer, the base of the three detectors: its list of callbacks  *)
(* and notify.  A callback is a handle; invoking it is recorded with the   *)
(* notification it belongs to and the result it was given.  The callbacks  *)
(* are, like those the pipeline registers, functions that return.         *)

Handles == { "on_energy", "on_frequency", "on_jerk" }

NotifyResults ==
    { [type |-> "energy", high_energy |-> FALSE],
      [type |-> "jerk_start", timestamp |-> 0] }

add_callback(callback) == Append(callbacks, callback)

\* a loop over the callbacks from the one registered last
notify_newest_first(result, notification) ==
    [i \in 1..Len(callbacks) |->
        [notification |-> notification,
         callback |-> callbacks[Len(callbacks) + 1 - i],
         result |-> result]]

\* the invocations made by notify(result), in the order they are made
notify(result, notification) ==
    [i \in 1..Len(callbacks) |->
        [notification |-> notification, callback |-> callbacks[i], result |-> result]]

AddCallback(callback) ==
    /\ Len(callbacks) < MaxCallbacks
    /\ callbacks' = add_callback(callback)
    /\ last' = [op |-> "add_callback", callback |-> callback]
    /\ UNCHANGED <<procVars, energyVars, freqVars, jerkVars, pipeVars, fed, stream, input,
                   recvVars, hostVars, invoked, ncalls, nconfig>>

Notify(result) ==
    /\ ncalls < MaxNotify
    /\ invoked' = invoked \o notify(result, ncalls + 1)
    /\ ncalls' = ncalls + 1
    /\ last' = [op |-> "notify", result |-> result]
    /\ UNCHANGED <<procVars, energyVars, freqVars, jerkVars, pipeVars, fed, stream, input,
                   recvVars, hostVars, callbacks, nconfig>>

NotifyNext ==
    \/ \E callback \in Handles : AddCallback(callback)
    \/ \E result \in NotifyResults : Notify(result)

NotifySpec == Constructed /\ [][NotifyNext]_vars

-----------------------------------------------------------------------------
(* A longer run of the pipeline, one sample every 0.01 s, over a stick at   *)
(* rest and a stick pushed along x while turning about z: long enough for  *)
(* the spectral buffers to fill a window.                                  *)

RunSamples ==
    { Sample(0, << 100, 0, 0, 0 >>, << 0, 0, 0 >>, << 0, 0, 0 >>),
      Sample(1, << 100, 0, 0, 0 >>, << 2400, 0, 0 >>, << 0, 0, 10000 >>) }

RunStep == 1

RunSample(parsed_data) ==
    /\ ncalls < MaxRun
    /\ _on_data_received(parsed_data, RunStep)
    /\ UNCHANGED recvVars

RunNext ==
    \/ \E parsed_data \in RunSamples : RunSample(parsed_data)
    \/ \E kwargs \in EnergyConfigs : ConfigureEnergyDetector(kwargs)
    \/ \E kwargs \in FrequencyConfigs : ConfigureFrequencyAnalyzer(kwargs)
    \/ \E kwargs \in JerkConfigs : ConfigureJerkDetector(kwargs)

RunSpec == Constructed /\ [][RunNext]_vars

-----------------------------------------------------------------------------
(* The frequency analyzer on its own, on signals that repeat every three   *)
(* samples on some axes and not on others, with its thresholds             *)
(* reconfigured between calls.                                             *)

FrequencyData ==
    { [local_gyroscope |-> << 0, 0, 0 >>, global_acceleration |-> << 0, 0, 0 >>],
      [local_gyroscope |-> << 6000, 6000, 0 >>, global_acceleration |-> << 0, 0, 300 >>],
      [local_gyroscope |-> << 5000, 6000, 0 >>, global_acceleration |-> << 0, 0, 200 >>] }

\* thresholds that accept more than the defaults do, a negative one included
FrequencyKwargs == FrequencyConfigs \cup { [prominence |-> -10] }

FrequencyProcess(processed_data) ==
    /\ ncalls < MaxFrequencyCalls
    /\ FrequencyCall(processed_data)

FrequencyNext ==
    \/ \E processed_data \in FrequencyData : FrequencyProcess(processed_data)
    \/ \E kwargs \in FrequencyKwargs : ConfigureFrequencyAnalyzer(kwargs)

FrequencySpec == Constructed /\ [][FrequencyNext]_vars

-----------------------------------------------------------------------------
(* GyroStickReceiver (src/module/SensorReceiver.py).  A datagram is either  *)
(* bytes that do not decode as UTF-8, or a text; a text is kept as the      *)
(* sequence of its whitespace-separated fields (what strip() and the \s+    *)
(* of the pattern leave), a field as the sequence of its characters.       *)

Digits == { "0", "1", "2", "3", "4", "5", "6", "7", "8", "9" }

DigitValue(c) ==
    CASE c = "0" -> 0 [] c = "1" -> 1 [] c = "2" -> 2 [] c = "3" -> 3 [] c = "4" -> 4
      [] c = "5" -> 5 [] c = "6" -> 6 [] c = "7" -> 7 [] c = "8" -> 8 [] c = "9" -> 9

AllDigits(field) == \A i \in 1..Len(field) : field[i] \in Digits

\* the field without its leading sign, if it has one
Unsigned(field) ==
    IF field # << >> /\ field[1] \in { "-", "+" } THEN Tail(field) ELSE field

\* (\d+)
MatchesButton(field) == field # << >> /\ AllDigits(field)

\* a pattern that also lets a trailing point through: [-+]?[\d.]+
MatchesNumberOrPoint(field) ==
    LET body == Unsigned(field)
    IN  body # << >> /\ \A i \in 1..Len(body) : body[i] \in Digits \cup { "." }

\* ([-+]?\d*\.?\d+)
MatchesNumber(field) ==
    LET body == Unsigned(field)
    IN  \E k \in 0..Len(body) :
            /\ AllDigits(SubSeq(body, 1, k))
            /\ \E d \in { k, k + 1 } :
                   /\ d <= Len(body)
                   /\ d = k + 1 => body[d] = "."
                   /\ d < Len(body)
                   /\ AllDigits(SubSeq(body, d + 1, Len(body)))

\* data_pattern.match: eleven fields, a button and ten numbers
data_pattern_match(fields) ==
    /\ Len(fields) = 11
    /\ MatchesButton(fields[1])
    /\ \A i \in 2..11 : MatchesNumber(fields[i])

RECURSIVE DigitsValue(_)
\* int() of a run of digits
DigitsValue(digits) ==
    IF digits = << >> THEN 0
    ELSE 10 * DigitsValue(SubSeq(digits, 1, Len(digits) - 1)) + DigitValue(digits[Len(digits)])

\* float() of a matched field, to two decimals
ParseFloat(field) ==
    LET body == Unsigned(field)
        dots == { i \in 1..Len(body) : body[i] = "." }
        dot == IF dots = { } THEN Len(body) + 1 ELSE CHOOSE i \in dots : TRUE
        whole == SubSeq(body, 1, dot - 1)
        fraction == SubSeq(body \o << "0", "0", "0" >>, dot + 1, dot + 2)
        magnitude == Scale * DigitsValue(whole) + DigitsValue(fraction)
    IN  IF field[1] = "-" THEN -magnitude ELSE magnitude

(* validate_and_parse_data.  float() and int() accept everything the        *)
(* pattern lets through, so the ValueError branch is never taken.          *)
validate_and_parse_data(fields) ==
    IF data_pattern_match(fields)
    THEN [valid |-> TRUE,
          button |-> DigitsValue(fields[1]),
          quaternion |-> << ParseFloat(fields[2]), ParseFloat(fields[3]),
                            ParseFloat(fields[4]), ParseFloat(fields[5]) >>,
          acceleration |-> << ParseFloat(fields[6]), ParseFloat(fields[7]),
                              ParseFloat(fields[8]) >>,
          gyroscope |-> << ParseFloat(fields[9]), ParseFloat(fields[10]),
                           ParseFloat(fields[11]) >>]
    ELSE [valid |-> FALSE, error |-> "Invalid data format"]

Text(fields) == [decodes |-> TRUE, fields |-> fields]

Undecodable == [decodes |-> FALSE]

Zero == << "0" >>

Datagrams ==
    { Undecodable,
      Text(<< >>),
      Text(<< Zero, << "1" >>, Zero, Zero, Zero, Zero, Zero, Zero, Zero, Zero, Zero >>),
      Text(<< << "1" >>, << "0", ".", "6" >>, Zero, Zero, << "-", ".", "8" >>,
              << "+", "2", "4", ".", "0" >>, << "-", "1", "2" >>, << ".", "0", "5" >>,
              Zero, << "6", "0" >>, << "1", "2", "0", ".", "5" >> >>),
      Text(<< Zero, << "1" >>, Zero, Zero, Zero, Zero, Zero, Zero, Zero, Zero >>),
      Text(<< Zero, << "1" >>, Zero, Zero, Zero, Zero, Zero, Zero, Zero, Zero, Zero, Zero >>),
      Text(<< Zero, << "1" >>, Zero, Zero, Zero, << "5", "." >>, Zero, Zero, Zero, Zero, Zero >>),
      Text(<< Zero, << "1" >>, Zero, Zero, Zero, << "1", "e", "3" >>, Zero, Zero, Zero, Zero,
              Zero >>),
      Text(<< << "-", "1" >>, << "1" >>, Zero, Zero, Zero, Zero, Zero, Zero, Zero, Zero,
              Zero >>) }

(* One turn of _receive_loop: recvfrom, decode, validate, then the data     *)
(* callback (the pipeline's _on_data_received) or the error callback.  An  *)
(* exception of the turn, the decode error and whatever the data callback  *)
(* raises, goes to the error callback and the loop goes on.                *)
ReceiveDatagram(datagram, elapsed) ==
    /\ Len(received) < MaxDatagrams
    /\ received' = Append(received, datagram)
    /\ IF ~datagram.decodes
       THEN /\ reported' = Append(reported, "Receive error")
            /\ clock' = clock + elapsed
            /\ last' = [op |-> "_receive_loop", parsed_data |-> None]
            /\ UNCHANGED <<procVars, energyVars, freqVars, jerkVars, results_history, fed,
                           stream, ncalls, nconfig, input, delivered, notifyVars,
                           hostVars>>
       ELSE \E parsed_data \in { validate_and_parse_data(datagram.fields) } :
                IF parsed_data.valid
                THEN /\ delivered' = Append(delivered, parsed_data)
                     /\ _on_data_received(Sample(parsed_data.button, parsed_data.quaternion,
                                                 parsed_data.acceleration,
                                                 parsed_data.gyroscope),
                                          elapsed)
                     /\ reported' = IF last'.raised
                                    THEN Append(reported, "Receive error")
                                    ELSE reported
                ELSE /\ reported' = Append(reported, parsed_data.error)
                     /\ clock' = clock + elapsed
                     /\ last' = [op |-> "_receive_loop", parsed_data |-> Some(parsed_data)]
                     /\ UNCHANGED <<procVars, energyVars, freqVars, jerkVars,
                                    results_history, fed, stream, ncalls, nconfig, input,
                                    delivered, notifyVars, hostVars>>

ReceiverNext ==
    \E datagram \in Datagrams, elapsed \in ClockSteps : ReceiveDatagram(datagram, elapsed)

ReceiverSpec == Constructed /\ [][ReceiverNext]_vars

-----------------------------------------------------------------------------
(* The orientation functions of SensorMath on their own: a quaternion q, a *)
(* scale k > 0 and a body angular velocity are drawn, and each function is *)
(* applied to q and to k*q.  The quaternions are rotations about the x or  *)
(* the z axis whose norm, and the norm of k*q, is exact at two decimals.   *)

Quaternions ==
    { << 100, 0, 0, 0 >>, << 0, 0, 0, 100 >>, << 60, 0, 0, 80 >>, << 80, 0, 0, -60 >>,
      << 60, 80, 0, 0 >>, << 80, 60, 0, 0 >>, << 0, 100, 0, 0 >> }

QuaternionScales == { 50, 200, 300 }

AngularVelocities == { << 0, 6000, 0 >>, << 1000, 6000, -8000 >> }

ScaledQuaternion(k, q) == << FMul(k, q[1]), FMul(k, q[2]), FMul(k, q[3]), FMul(k, q[4]) >>

OrientationInit ==
    /\ Objects
    /\ stream = None
    /\ input \in { Some([q |-> q, k |-> k, local_gyro |-> g]) :
                       q \in Quaternions, k \in QuaternionScales, g \in AngularVelocities }

Applied(op, result, scaled) ==
    /\ input # None
    /\ last' = [op |-> op, result |-> result, scaled |-> scaled]
    /\ UNCHANGED <<procVars, energyVars, freqVars, jerkVars, pipeVars, fed, stream, ncalls,
                   nconfig, auxVars>>

RotationMatrix ==
    Applied("quaternion_to_rotation_matrix",
            quaternion_to_rotation_matrix(input[1].q),
            quaternion_to_rotation_matrix(ScaledQuaternion(input[1].k, input[1].q)))

EulerAngles ==
    Applied("quaternion_to_euler_angles",
            quaternion_to_euler_angles(input[1].q),
            quaternion_to_euler_angles(ScaledQuaternion(input[1].k, input[1].q)))

EulerRates ==
    Applied("body_angular_velocity_to_euler_rates",
            body_angular_velocity_to_euler_rates(input[1].local_gyro, input[1].q),
            body_angular_velocity_to_euler_rates(input[1].local_gyro,
                                                 ScaledQuaternion(input[1].k, input[1].q)))

OrientationNext == RotationMatrix \/ EulerAngles \/ EulerRates

OrientationSpec == OrientationInit /\ [][OrientationNext]_vars

-----------------------------------------------------------------------------
(* A vector taken to the global frame and back.  The quaternions are of    *)
(* norm 1 with rotation matrices of entries 0, 1, 0.28 and 0.96 and their  *)
(* negatives, and the components of the vectors are multiples of 25.00, so *)
(* that every product is exact at the resolution of the model.             *)

UnitQuaternions ==
    { << 100, 0, 0, 0 >>, << 0, 0, 0, 100 >>, << 0, 100, 0, 0 >>, << 50, 50, 50, 50 >>,
      << 50, -50, 50, -50 >>, << 60, 0, 0, 80 >>, << 80, 0, 0, -60 >>, << 60, 80, 0, 0 >>,
      << 80, 0, -60, 0 >>, << 0, 60, 80, 0 >> }

Components == { 0, 2500, -5000 }

Vectors == { << a, b, c >> : a \in Components, b \in Components, c \in Components }

RoundTripInit ==
    /\ Objects
    /\ stream = None
    /\ input \in { Some([q |-> q, v |-> v]) : q \in UnitQuaternions, v \in Vectors }

ToGlobal ==
    /\ last.op = "init"
    /\ last' = [op |-> "transform_to_global",
                result |-> transform_to_global(input[1].v, input[1].q)]
    /\ UNCHANGED <<procVars, energyVars, freqVars, jerkVars, pipeVars, fed, stream, ncalls,
                   nconfig, auxVars>>

ToLocal ==
    /\ last.op = "transform_to_global"
    /\ last' = [op |-> "transform_to_local",
                result |-> transform_to_local(last.result, input[1].q)]
    /\ UNCHANGED <<procVars, energyVars, freqVars, jerkVars, pipeVars, fed, stream, ncalls,
                   nconfig, auxVars>>

RoundTripNext == ToGlobal \/ ToLocal

RoundTripSpec == RoundTripInit /\ [][RoundTripNext]_vars

-----------------------------------------------------------------------------
(* The recording loop of data_collect: one turn of mainloop per valid      *)
(* datagram, with the button held or released.                             *)

RecordSamples ==
    { Sample(0, << 100, 0, 0, 0 >>, << 0, 0, 0 >>, << 0, 0, 0 >>),
      Sample(1, << 100, 0, 0, 0 >>, << 2400, 0, 0 >>, << 0, 0, 0 >>),
      Sample(1, << 0, 0, 0, 100 >>, << 0, 0, -4800 >>, << 0, 6000, 0 >>) }

\* the state the turn leaves, given the recorder after the start or stop on the button
RecordTurn(toggled, parsed_data, current_time, button_pressed) ==
    /\ recorder' = record_sample(toggled, parsed_data, current_time, button_pressed)
    /\ last' = [op |-> "mainloop",
                current_time |-> current_time,
                started |-> button_pressed /\ ~recorder.is_recording,
                velocity_before |-> recorder.velocity,
                velocity_at_transform |-> toggled.velocity,
                last_timestamp_at_transform |-> toggled.last_timestamp]

mainloop(parsed_data, elapsed) ==
    /\ ncalls < MaxRecord
    /\ clock' = clock + elapsed
    /\ RecordTurn(toggle_recording(recorder, parsed_data.button = 1), parsed_data,
                  clock + elapsed, parsed_data.button = 1)
    /\ ncalls' = ncalls + 1
    /\ UNCHANGED <<procVars, energyVars, freqVars, jerkVars, results_history, fed, stream,
                   nconfig, input, recvVars, notifyVars, controller, device>>

RecorderNext ==
    \E parsed_data \in RecordSamples, elapsed \in ClockSteps : mainloop(parsed_data, elapsed)

RecorderSpec == Constructed /\ [][RecorderNext]_vars

-----------------------------------------------------------------------------
(* The LED controller with its threads: the caller starts animations and   *)
(* flashes, every thread takes one statement at a time.                    *)

PulseFrequencies == { 100, 104 }

ledOthers == <<procVars, energyVars, freqVars, jerkVars, pipeVars, fed, stream, nconfig,
               input, recvVars, notifyVars, recorder>>

\* the threads there can be: the caller, and at most two for each of its calls
ThreadIds == 1..(1 + 2 * MaxLedCalls)

At(t, pc) == t \in DOMAIN controller.threads /\ controller.threads[t].pc = pc

\* a step of thread t that leaves it as th
ThreadStep(t, th) ==
    /\ controller' = [controller EXCEPT !.threads[t] = th]
    /\ UNCHANGED <<device, last, ncalls, ledOthers>>

\* a call by the caller of the controller, which leaves it as th
Call(op, th) ==
    /\ ncalls < MaxLedCalls
    /\ At(1, "idle")
    /\ controller' = [controller EXCEPT !.threads[1] = th]
    /\ ncalls' = ncalls + 1
    /\ last' = [op |-> op]
    /\ UNCHANGED <<device, ledOthers>>

\* the thread entering stop_current_animation on the way to a new animation
Starting(th, mode, frequency) ==
    [th EXCEPT !.pc = "stop_set_flag", !.op = "animate", !.mode = mode,
               !.frequency = frequency]

start_fantasy_animation ==
    Call("start_fantasy_animation",
         IF controller.current_mode = Fantasy THEN controller.threads[1]
         ELSE Starting(controller.threads[1], Fantasy, 0))

start_frequency_pulse(frequency) ==
    Call("start_frequency_pulse",
         IF controller.current_mode = pulse_mode(frequency) THEN controller.threads[1]
         ELSE Starting(controller.threads[1], pulse_mode(frequency), frequency))

trigger_snap_flash ==
    Call("trigger_snap_flash",
         [controller.threads[1] EXCEPT
             !.pc = "stop_set_flag",
             !.op = "flash",
             !.interrupted = /\ controller.current_mode = Fantasy
                             /\ controller.is_animating
                             /\ AnimationThreadAlive(controller),
             !.call = ncalls + 1])

\* stop_current_animation: self.animation_stop_flag = True
StopSetFlag(t) ==
    /\ At(t, "stop_set_flag")
    /\ controller' = [controller EXCEPT !.animation_stop_flag = TRUE,
                                        !.threads[t].pc = "stop_join"]
    /\ UNCHANGED <<device, last, ncalls, ledOthers>>

\* stop_current_animation: there is no live animation thread, or the join ends with it
StopJoined(t) ==
    /\ At(t, "stop_join")
    /\ ~AnimationThreadAlive(controller)
    /\ ThreadStep(t, [controller.threads[t] EXCEPT !.pc = "stop_done"])

\* stop_current_animation: join(timeout=0.1) returns with the thread alive
StopJoinTimeout(t) ==
    /\ At(t, "stop_join")
    /\ AnimationThreadAlive(controller)
    /\ ThreadStep(t, [controller.threads[t] EXCEPT !.pc = "stop_done"])

\* stop_current_animation: self.is_animating = False
StopDone(t) ==
    /\ At(t, "stop_done")
    /\ controller' = [controller EXCEPT
           !.is_animating = FALSE,
           !.threads[t].pc = IF controller.threads[t].op = "flash"
                             THEN "start_flash" ELSE "set_mode"]
    /\ UNCHANGED <<device, last, ncalls, ledOthers>>

\* self.current_mode = ...
SetMode(t) ==
    /\ At(t, "set_mode")
    /\ controller' = [controller EXCEPT !.current_mode = controller.threads[t].mode,
                                        !.threads[t].pc = "clear_flag"]
    /\ UNCHANGED <<device, last, ncalls, ledOthers>>

\* self.animation_stop_flag = False
ClearFlag(t) ==
    /\ At(t, "clear_flag")
    /\ controller' = [controller EXCEPT !.animation_stop_flag = FALSE,
                                        !.threads[t].pc = "start_thread"]
    /\ UNCHANGED <<device, last, ncalls, ledOthers>>

\* self.animation_thread = threading.Thread(target=...); self.animation_thread.start()
StartThread(t) ==
    /\ At(t, "start_thread")
    /\ controller' = [controller EXCEPT
           !.animation_thread = Some(Len(controller.threads) + 1),
           !.threads = Append([@ EXCEPT ![t].pc = "set_animating"],
                              Thread(controller.threads[t].mode[1], "check",
                                     controller.threads[t].mode,
                                     controller.threads[t].frequency))]
    /\ UNCHANGED <<device, last, ncalls, ledOthers>>

\* self.is_animating = True, and the return
SetAnimating(t) ==
    /\ At(t, "set_animating")
    /\ controller' = [controller EXCEPT !.is_animating = TRUE,
                                        !.threads[t] = Returned(@)]
    /\ UNCHANGED <<device, last, ncalls, ledOthers>>

\* trigger_snap_flash: flash_thread.start(), and the return
StartFlash(t) ==
    /\ At(t, "start_flash")
    /\ controller' = [controller EXCEPT
           !.threads = Append([@ EXCEPT ![t] = Returned(@)],
                              [Thread("flash", "white", Idle, 0) EXCEPT
                                  !.interrupted = controller.threads[t].interrupted,
                                  !.call = controller.threads[t].call])]
    /\ UNCHANGED <<device, last, ncalls, ledOthers>>

\* fantasy_loop, pulse_loop: while not self.animation_stop_flag
LoopCheck(t) ==
    /\ At(t, "check")
    /\ IsLoop(controller.threads[t])
    /\ ThreadStep(t, [controller.threads[t] EXCEPT
                          !.pc = IF controller.animation_stop_flag THEN "done" ELSE "send"])

\* a thread's self.receiver.led_on(*color), which leaves the thread as th
SendStep(t, color, th) ==
    /\ controller' = [controller EXCEPT !.threads[t] = th]
    /\ device' = IF device.led_enabled THEN send_command(device, color) ELSE device
    /\ UNCHANGED <<last, ncalls, ledOthers>>

\* fantasy_loop, pulse_loop: self.receiver.led_on(*color); time.sleep(...)
LoopSend(t) ==
    /\ At(t, "send")
    /\ IsLoop(controller.threads[t])
    /\ SendStep(t, LoopColor(controller.threads[t]),
                [controller.threads[t] EXCEPT !.pc = "check"])

\* flash_effect: self.receiver.led_on(255, 255, 255)
FlashWhite(t) ==
    /\ At(t, "white")
    /\ SendStep(t, << 255, 255, 255 >>, [controller.threads[t] EXCEPT !.pc = "fade"])

\* flash_effect: one turn of the fade
FlashFade(t) ==
    /\ At(t, "fade")
    /\ \E intensity \in { FadeIntensity(controller.threads[t].i) } :
           SendStep(t, << intensity, intensity, intensity >>,
                    [controller.threads[t] EXCEPT
                        !.i = @ + 1,
                        !.pc = IF controller.threads[t].i + 1 < FadeSteps
                               THEN "fade" ELSE "off"])

\* flash_effect: self.receiver.led_on(0, 0, 0)
FlashOff(t) ==
    /\ At(t, "off")
    /\ SendStep(t, LedOff, [controller.threads[t] EXCEPT !.pc = "resume"])

\* resume_animation: if self.current_mode == 'fantasy'
FlashResume(t) ==
    /\ At(t, "resume")
    /\ ThreadStep(t, [controller.threads[t] EXCEPT
                          !.pc = IF controller.current_mode = Fantasy
                                 THEN "resume_fantasy" ELSE "done"])

\* resume_animation: start_fantasy_animation(), which returns if the mode is 'fantasy'
FlashResumeFantasy(t) ==
    /\ At(t, "resume_fantasy")
    /\ ThreadStep(t, IF controller.current_mode = Fantasy
                     THEN Returned(controller.threads[t])
                     ELSE Starting(controller.threads[t], Fantasy, 0))

\* _receive_loop: the sender of the first datagram becomes the client
ClientSeen ==
    /\ device.clients = None
    /\ device' = Connected(device)
    /\ UNCHANGED <<controller, last, ncalls, ledOthers>>

LedNext ==
    \/ ClientSeen
    \/ start_fantasy_animation
    \/ \E frequency \in PulseFrequencies : start_frequency_pulse(frequency)
    \/ trigger_snap_flash
    \/ \E t \in ThreadIds : StopSetFlag(t)
    \/ \E t \in ThreadIds : StopJoined(t)
    \/ \E t \in ThreadIds : StopJoinTimeout(t)
    \/ \E t \in ThreadIds : StopDone(t)
    \/ \E t \in ThreadIds : SetMode(t)
    \/ \E t \in ThreadIds : ClearFlag(t)
    \/ \E t \in ThreadIds : StartThread(t)
    \/ \E t \in ThreadIds : SetAnimating(t)
    \/ \E t \in ThreadIds : StartFlash(t)
    \/ \E t \in ThreadIds : LoopCheck(t)
    \/ \E t \in ThreadIds : LoopSend(t)
    \/ \E t \in ThreadIds : FlashWhite(t)
    \/ \E t \in ThreadIds : FlashFade(t)
    \/ \E t \in ThreadIds : FlashOff(t)
    \/ \E t \in ThreadIds : FlashResume(t)
    \/ \E t \in ThreadIds : FlashResumeFantasy(t)

LedSpec == Constructed /\ [][LedNext]_vars

-----------------------------------------------------------------------------
(* LED control (src/Fanfare.py, src/module/SensorReceiver.py): the         *)
(* receiving thread sets the LED from each datagram with led_on, the       *)
(* keyboard thread switches LED control on and off; every thread takes one *)
(* statement at a time.                                                    *)

\* the colours of the zones at full brightness, and black
ZoneColors == { << 0, 0, 0 >>, << 0, 255, 0 >>, << 255, 0, 0 >> }

controlOthers == <<procVars, energyVars, freqVars, jerkVars, pipeVars, fed, stream, input,
                   recvVars, notifyVars, recorder, controller, last>>

\* _receive_loop, _on_data_received, update_led up to the call of led_on
UpdateLed(final_color) ==
    /\ ncalls < MaxColors
    /\ device.data.pc = "receive"
    /\ device' = [Connected(device) EXCEPT !.data = [pc |-> "led_on", color |-> final_color]]
    /\ ncalls' = ncalls + 1
    /\ UNCHANGED <<nconfig, controlOthers>>

\* led_on: if self.led_enabled
LedOnCheck ==
    /\ device.data.pc = "led_on"
    /\ device' = [device EXCEPT !.data.pc = IF device.led_enabled THEN "send" ELSE "receive"]
    /\ UNCHANGED <<ncalls, nconfig, controlOthers>>

\* led_on: self.send_command(f'LED 0,{r},{g},{b}')
LedOnSend ==
    /\ device.data.pc = "send"
    /\ device' = [send_command(device, device.data.color) EXCEPT !.data.pc = "receive"]
    /\ UNCHANGED <<ncalls, nconfig, controlOthers>>

\* the keyboard thread after led_enabled has been set
ControlSet(enabled) ==
    /\ nconfig < MaxKeys
    /\ device.keyboard = "input"
    /\ device' = [device EXCEPT !.led_enabled = enabled,
                                !.keyboard = IF enabled THEN "input" ELSE "send_off"]
    /\ nconfig' = nconfig + 1
    /\ UNCHANGED <<ncalls, controlOthers>>

\* the key 'l': self.led_enabled = not self.led_enabled
toggle_led_control == ControlSet(~device.led_enabled)

\* self.led_enabled = enabled
set_led_control(enabled) == ControlSet(enabled)

\* toggle_led_control, set_led_control: self.send_command('LED 0,0,0,0')
SendOff ==
    /\ device.keyboard = "send_off"
    /\ device' = [send_command(device, LedOff) EXCEPT !.keyboard = "input"]
    /\ UNCHANGED <<ncalls, nconfig, controlOthers>>

ControlNext ==
    \/ \E final_color \in ZoneColors : UpdateLed(final_color)
    \/ LedOnCheck
    \/ LedOnSend
    \/ toggle_led_control
    \/ \E enabled \in BOOLEAN : set_led_control(enabled)
    \/ SendOff

ControlSpec == Constructed /\ [][ControlNext]_vars

-----------------------------------------------------------------------------
(* Claims about the integrator (IntegratorSpec) *)

IsProcess == last.op = "process_sensor_data"

\* the call had no previous timestamp, or its dt = current_time - last_time is <= 0
NoPositiveDt ==
    \/ last.last_time_before = None
    \/ last.current_time - last.last_time_before[1] <= 0

(* C1: a call of process_sensor_data with no previous timestamp or with    *)
(* dt <= 0 leaves the velocity as it found it.                             *)
C1_VelocityKeptWithoutPositiveDt ==
    (IsProcess /\ NoPositiveDt) => velocity = last.velocity_before

(* C4: after reset_velocity the velocity is zero and the previous          *)
(* acceleration and previous timestamp are cleared, and the first sample   *)
(* processed after a reset leaves the velocity at zero.                    *)
C4_ResetClearsIntegrator ==
    /\ last.op = "reset_velocity" =>
           /\ velocity = << 0, 0, 0 >>
           /\ prev_accel = None
           /\ last_time = None
    /\ (IsProcess /\ last.after_reset) => velocity = << 0, 0, 0 >>


-----------------------------------------------------------------------------
(* Claims about the jerk detector (JerkSpec) *)

IsJerkProcess == last.op = "jerk_process"

IsStart(ret) == ret # None /\ ret[1].type = "jerk_start"

IsSnap(ret) == ret # None /\ ret[1].type = "snap_detected"

\* dt of the two most recent samples handed to the detector (0 when there is one)
FedDt ==
    LET n == Len(fed.jerk)
    IN  IF n >= 2 THEN fed.jerk[n][1] - fed.jerk[n - 1][1] ELSE 0

\* |change of acceleration magnitude| / dt over the two most recent samples
FedJerk ==
    LET n == Len(fed.jerk)
    IN  IF n >= 2 /\ FedDt > 0
        THEN Abs(FDiv(fed.jerk[n][2] - fed.jerk[n - 1][2], FedDt))
        ELSE 0

\* the timestamp of the most recent Start returned
LastStart == fed.starts[Len(fed.starts)]

\* the call found the detector in the high-jerk state and the jerk below zero_threshold
LeavesHighJerk ==
    /\ IsJerkProcess
    /\ Len(fed.jerk) >= 2
    /\ last.state_before.is_high_jerk
    /\ FedJerk < last.thresholds.zero_threshold

(* C2: a call that leaves the high-jerk state before minimum_duration has  *)
(* passed returns None without raising, notifies nobody and leaves the     *)
(* detector quiescent.                                                     *)
C2_ShortEpisodeEndsSilently ==
    (LeavesHighJerk /\ last.timestamp - LastStart < last.thresholds.minimum_duration) =>
        /\ ~last.raised
        /\ last.ret = None
        /\ last.notified = << >>
        /\ ~jerk_state.is_high_jerk

(* C5: process returns a Start exactly when it finds the detector          *)
(* quiescent and the jerk is strictly greater than trigger_threshold; the  *)
(* Start carries the jerk magnitude, the detector is then in the high-jerk *)
(* state with the sample's timestamp as entry time; with dt <= 0 the jerk  *)
(* is 0 and there is no Start.                                             *)
C5_StartExactlyOnTrigger ==
    IsJerkProcess =>
        /\ IsStart(last.ret) <=>
               /\ Len(fed.jerk) >= 2
               /\ ~last.state_before.is_high_jerk
               /\ FedJerk > last.thresholds.trigger_threshold
        /\ IsStart(last.ret) =>
               /\ last.ret[1].jerk_magnitude = FedJerk
               /\ last.ret[1].timestamp = last.timestamp
               /\ last.notified = last.ret
               /\ jerk_state.is_high_jerk
               /\ jerk_state.high_jerk_start_time = Some(last.timestamp)
        /\ FedDt <= 0 => (last.jerk_magnitude = 0 /\ ~IsStart(last.ret))

C5_StartReturned ==
    /\ IsJerkProcess
    /\ IsStart(last.ret)
    /\ last.thresholds # JerkDefaults

(* C6: leaving the high-jerk state with now - entry >= minimum_duration    *)
(* returns a Snap whose duration is now minus the timestamp of the Start   *)
(* that opened the episode, and sets the last-snap timestamp to now; no    *)
(* other step changes the last-snap timestamp.                             *)
C6_SnapDurationFromStart ==
    /\ [](   (LeavesHighJerk /\ last.timestamp - LastStart >= last.thresholds.minimum_duration)
          => /\ IsSnap(last.ret)
             /\ last.ret[1].duration = last.timestamp - LastStart
             /\ last.ret[1].timestamp = last.timestamp
             /\ jerk_state.last_snap_time = Some(last.timestamp))
    /\ [][   jerk_state'.last_snap_time # jerk_state.last_snap_time
          => (last'.op = "jerk_process" /\ IsSnap(last'.ret)) ]_vars

C6_SnapReturned ==
    /\ LeavesHighJerk
    /\ IsSnap(last.ret)
    /\ last.ret[1].duration > last.thresholds.minimum_duration

(* C7: the interval of a Snap is None exactly on the first Snap the        *)
(* detector emits; on a later Snap it is the Snap's timestamp minus the    *)
(* timestamp of the previous Snap, whatever that timestamp is.             *)
C7_IntervalSincePreviousSnap ==
    (IsJerkProcess /\ IsSnap(last.ret)) =>
        LET n == Len(fed.snaps)
        IN  /\ last.ret[1].interval = None <=> n = 1
            /\ n > 1 => last.ret[1].interval = Some(fed.snaps[n] - fed.snaps[n - 1])

-----------------------------------------------------------------------------
(* Claims about the step stream (StepSpec) *)

StepDone == stream # None /\ stream[1].sent = StepLength(stream[1])

EventTypes(events) == [i \in 1..Len(events) |-> events[i].type]

-----------------------------------------------------------------------------
(* Claims about the buffers (FeedSpec) *)

Min(a, b) == IF a <= b THEN a ELSE b

\* the k most recent of a sequence of n values, oldest first
MostRecent(values, k) ==
    [i \in 1..Min(k, Len(values)) |-> values[Len(values) - Min(k, Len(values)) + i]]

(* C9: each spectral buffer holds the min(n, capacity) most recent values  *)
(* of its axis in arrival order, the jerk histories hold the               *)
(* min(n, capacity) most recent timestamps and magnitudes in arrival       *)
(* order; no buffer is longer than its capacity, the six spectral buffers  *)
(* have one length and the two jerk histories have one length.             *)
C9_BuffersHoldMostRecent ==
    /\ \A a \in Axes :
           /\ gyro_buffers[a] =
                  MostRecent([i \in 1..Len(fed.frequency) |->
                                  fed.frequency[i].local_gyroscope[a]], SPECTRAL_MAXLEN)
           /\ accel_buffers[a] =
                  MostRecent([i \in 1..Len(fed.frequency) |->
                                  fed.frequency[i].global_acceleration[a]], SPECTRAL_MAXLEN)
           /\ Len(gyro_buffers[a]) <= SPECTRAL_MAXLEN
           /\ Len(gyro_buffers[a]) = Len(accel_buffers[1])
           /\ Len(accel_buffers[a]) = Len(accel_buffers[1])
    /\ timestamp_history =
           MostRecent([i \in 1..Len(fed.jerk) |-> fed.jerk[i][1]], JERK_MAXLEN)
    /\ accel_history =
           MostRecent([i \in 1..Len(fed.jerk) |-> fed.jerk[i][2]], JERK_MAXLEN)
    /\ Len(timestamp_history) <= JERK_MAXLEN
    /\ Len(timestamp_history) = Len(accel_history)

C9_BuffersHaveEvicted ==
    /\ Len(fed.frequency) > SPECTRAL_MAXLEN
    /\ Len(fed.jerk) > JERK_MAXLEN
    /\ fed.frequency[1] # fed.frequency[Len(fed.frequency)]

-----------------------------------------------------------------------------
(* Claims about the pipeline (Spec) *)

IsOnDataReceived == last.op = "_on_data_received"

(* C3: no call of the integrator or of a detector raises, whatever the     *)
(* timestamps, quaternions, accelerations and angular velocities.          *)
C3_NoCallRaises ==
    IsOnDataReceived => ~last.raised

(* C10: every sample handled by the pipeline leaves exactly one aggregate  *)
(* in the results history, with the timestamp that was passed to the       *)
(* integrator and that the energy and frequency results carry.             *)
C10_OneAggregatePerSample ==
    /\ Len(results_history) = ncalls
    /\ IsOnDataReceived =>
           /\ last.recorded = 1
           /\ results_history[Len(results_history)].timestamp = last.current_time
           /\ results_history[Len(results_history)].energy.timestamp = last.current_time
           /\ results_history[Len(results_history)].frequency.timestamp = last.current_time

-----------------------------------------------------------------------------
(* Claims about the receiver (ReceiverSpec) *)

\* a decimal number in the sample format: an optional sign, then digits with at most
\* one point among them, the last character a digit
IsDecimal(field) ==
    LET n == Len(field)
        first == IF n > 0 /\ field[1] \in { "-", "+" } THEN 2 ELSE 1
    IN  /\ n >= first
        /\ field[n] \in Digits
        /\ \A i \in first..n : field[i] \in Digits \cup { "." }
        /\ Cardinality({ i \in first..n : field[i] = "." }) <= 1

\* the datagram is a sample: eleven fields, a button count and ten decimals
WellFormed(datagram) ==
    /\ datagram.decodes
    /\ Len(datagram.fields) = 11
    /\ Len(datagram.fields[1]) > 0
    /\ \A i \in 1..Len(datagram.fields[1]) : datagram.fields[1][i] \in Digits
    /\ \A k \in 2..11 : IsDecimal(datagram.fields[k])

WellFormedReceived == SelectSeq(received, WellFormed)

(* C11: the data callback is called once for each well-formed datagram, in *)
(* arrival order, with its parsed sample, and for nothing else; the        *)
(* integrator and the detectors have been run once per delivered sample;   *)
(* a step that receives a malformed datagram calls the error callback once *)
(* and leaves the data callback, the integrator and the detectors alone.   *)
C11_OnlyValidSamplesDelivered ==
    /\ [](/\ Len(delivered) = Len(WellFormedReceived)
          /\ \A i \in 1..Len(delivered) :
                 delivered[i] = validate_and_parse_data(WellFormedReceived[i].fields)
          /\ ncalls = Len(delivered)
          /\ Len(fed.frequency) = Len(delivered)
          /\ Len(fed.jerk) = Len(delivered))
    /\ [][(Len(received') > Len(received) /\ ~WellFormed(received'[Len(received')]))
          => /\ delivered' = delivered
             /\ Len(reported') = Len(reported) + 1
             /\ UNCHANGED <<procVars, energyVars, freqVars, jerkVars, results_history>>]_vars

C11_ValidAfterMalformed ==
    /\ Len(received) = 3
    /\ ~received[1].decodes
    /\ received[2].decodes /\ ~WellFormed(received[2])
    /\ WellFormed(received[3])
    /\ Len(delivered) = 1
    /\ delivered[1].acceleration = << 2400, -1200, 5 >>
    /\ Len(reported) = 2

-----------------------------------------------------------------------------
(* Claims about the orientation functions (OrientationSpec) *)

(* C12: quaternion_to_rotation_matrix, quaternion_to_euler_angles and      *)
(* body_angular_velocity_to_euler_rates give for k*q, k > 0, what they     *)
(* give for q.                                                             *)
C12_QuaternionScaleIgnored ==
    last.op \in { "quaternion_to_rotation_matrix", "quaternion_to_euler_angles",
                  "body_angular_velocity_to_euler_rates" }
        => last.scaled = last.result

-----------------------------------------------------------------------------
(* Claims about the dead zone (IntegratorSpec) *)

\* 0 below the threshold, the value itself from the threshold on
DeadZone(v, threshold) == IF Abs(v) < threshold THEN 0 ELSE v

(* C13: on every axis the local_acceleration (local_gyroscope) returned by *)
(* process_sensor_data is 0 when the sample's raw acceleration (gyro) is   *)
(* below accel_threshold (gyro_threshold) in absolute value, and the raw   *)
(* value of the sample otherwise.                                          *)
C13_DeadZoneOfRawSample ==
    IsProcess =>
        \A i \in Axes :
            /\ last.ret.local_acceleration[i] =
                   DeadZone(last.parsed_data.acceleration[i], accel_threshold)
            /\ last.ret.local_gyroscope[i] =
                   DeadZone(last.parsed_data.gyroscope[i], gyro_threshold)

-----------------------------------------------------------------------------
(* Claims about the energy detector (Spec) *)

Range(s) == { s[i] : i \in 1..Len(s) }

Square(v) == FMul(v, v)

(* C14: a channel vel_<axis> (ang_<axis>) is listed as active exactly when *)
(* the square of the current velocity (Euler rate) on that axis is         *)
(* strictly greater than its threshold; each channel is listed at most     *)
(* once; high_energy is true iff the list is not empty; the energies       *)
(* reported are those squares: the result is a function of the current     *)
(* velocity, Euler rates and thresholds.                                   *)
C14_ActiveChannelsAboveThreshold ==
    IsOnDataReceived =>
        LET result == last.energy
            velocities == last.processed_data.velocity
            rates == last.processed_data.euler_rates
            names == << "x", "y", "z" >>
        IN  /\ \A i \in Axes :
                   /\ << "vel", names[i] >> \in Range(result.active_channels)
                          <=> Square(velocities[i]) > energy_thresholds.velocity[i]
                   /\ << "ang", names[i] >> \in Range(result.active_channels)
                          <=> Square(rates[i]) > energy_thresholds.angular[i]
                   /\ result.vel_energies[i] = Square(velocities[i])
                   /\ result.angular_energies[i] = Square(rates[i])
            /\ Cardinality(Range(result.active_channels)) = Len(result.active_channels)
            /\ result.high_energy <=> result.active_channels # << >>

C14_SomeChannelsActive ==
    /\ IsOnDataReceived
    /\ last.energy.high_energy
    /\ \E i, j, k \in Axes :
           /\ << "vel", AxisName(i) >> \in Range(last.energy.active_channels)
           /\ << "ang", AxisName(j) >> \in Range(last.energy.active_channels)
           /\ << "vel", AxisName(k) >> \notin Range(last.energy.active_channels)
           /\ last.processed_data.velocity[k] # 0

-----------------------------------------------------------------------------
\* the six axis analyses of a frequency result, gyroscope first
AxisResults(result) ==
    << result.gyro_results[1], result.gyro_results[2], result.gyro_results[3],
       result.accel_results[1], result.accel_results[2], result.accel_results[3] >>

\* the axis analyses that accepted an estimate
Accepted(result) == { i \in 1..6 : AxisResults(result)[i].detected }

(* C15: FrequencyAnalyzer.process reports a detection exactly when one of   *)
(* the six axis analyses accepted an estimate; the best frequency and      *)
(* confidence are then those of an accepted estimate of the highest        *)
(* confidence, and both are 0 when nothing is detected.                    *)
C15_BestOfAcceptedEstimates ==
    last.op = "frequency_process" =>
        LET result == last.ret
            axis == AxisResults(result)
        IN  /\ result.detected <=> Accepted(result) # { }
            /\ result.detected =>
                   \E i \in Accepted(result) :
                       /\ result.best_frequency = axis[i].frequency
                       /\ result.best_confidence = axis[i].confidence
                       /\ \A j \in Accepted(result) : axis[j].confidence <= axis[i].confidence
            /\ ~result.detected => result.best_frequency = 0 /\ result.best_confidence = 0

\* three axes accepted, the best of them neither the first nor the last analysed
C15_BestIsMiddleAxis ==
    /\ last.op = "frequency_process"
    /\ Accepted(last.ret) = { 1, 2, 6 }
    /\ AxisResults(last.ret)[1].confidence < AxisResults(last.ret)[2].confidence
    /\ AxisResults(last.ret)[6].confidence < AxisResults(last.ret)[2].confidence
    /\ last.ret.best_confidence = AxisResults(last.ret)[2].confidence

-----------------------------------------------------------------------------
(* C16: a history too short to analyse is reported as nothing detected,    *)
(* not as an error.  While fewer samples than the smallest window have     *)
(* been processed, FrequencyAnalyzer.process returns detected = false with *)
(* best frequency and confidence 0 and notifies no callback; on the first  *)
(* sample of its history JerkDetector.process returns None.                *)
C16_ShortHistoryNotDetected ==
    /\ (last.op = "frequency_process" /\ Len(fed.frequency) < window_sizes[1]) =>
           /\ ~last.raised
           /\ ~last.ret.detected
           /\ last.ret.best_frequency = 0
           /\ last.ret.best_confidence = 0
           /\ last.notified = << >>
    /\ (last.op = "jerk_process" /\ Len(fed.jerk) = 1) =>
           /\ ~last.raised
           /\ last.ret = None
           /\ last.notified = << >>

\* the last sample before the smallest window is full, after a first jerk sample
C16_OneShortOfWindow ==
    /\ last.op = "frequency_process"
    /\ Len(fed.frequency) = window_sizes[1] - 1
    /\ \A i \in 1..Len(fed.frequency) : fed.frequency[i].local_gyroscope[3] > 0
    /\ Len(fed.jerk) = 1

-----------------------------------------------------------------------------
\* every value of the six spectral buffers is zero
BuffersAtRest ==
    \A a \in Axes :
        /\ \A i \in 1..Len(gyro_buffers[a]) : gyro_buffers[a][i] = 0
        /\ \A i \in 1..Len(accel_buffers[a]) : accel_buffers[a][i] = 0

(* C17: when every value of the spectral buffers is zero, so that the      *)
(* spectrum has no power, FrequencyAnalyzer.process returns detected =     *)
(* false with best confidence 0 and notifies no callback, whatever the     *)
(* length of the buffers and the window analysed.                          *)
C17_NothingDetectedAtRest ==
    (last.op = "frequency_process" /\ BuffersAtRest) =>
        /\ ~last.raised
        /\ ~last.ret.detected
        /\ last.ret.best_confidence = 0
        /\ last.notified = << >>

\* full buffers at rest analysed under a threshold that a prominence of 0 exceeds
C17_FullBuffersAtRest ==
    /\ last.op = "frequency_process"
    /\ BuffersAtRest
    /\ Len(gyro_buffers[1]) = SPECTRAL_MAXLEN
    /\ freq_thresholds.prominence < 0

-----------------------------------------------------------------------------
(* Claims about reconfiguration (RunSpec) *)

ConfigureOps ==
    { "configure_energy_detector", "configure_frequency_analyzer", "configure_jerk_detector" }

\* the stored thresholds carry every value of the configure call just made
Configured(thresholds) == \A k \in DOMAIN last.kwargs : thresholds[k] = last.kwargs[k]

C18_ThresholdsStored ==
    /\ last.op = "configure_energy_detector" => Configured(energy_thresholds)
    /\ last.op = "configure_frequency_analyzer" => Configured(freq_thresholds)
    /\ last.op = "configure_jerk_detector" => Configured(jerk_thresholds)

IsEvent(ret, type) == ret # None /\ ret[1].type = type

\* the decisions of the three detectors on a sample are those of the stored thresholds
C18_SampleUsesThresholds ==
    IsOnDataReceived =>
        /\ \A i \in Axes :
               /\ << "vel", AxisName(i) >> \in Range(last.energy.active_channels)
                      <=> Square(last.processed_data.velocity[i]) > energy_thresholds.velocity[i]
               /\ << "ang", AxisName(i) >> \in Range(last.energy.active_channels)
                      <=> Square(last.processed_data.euler_rates[i])
                              > energy_thresholds.angular[i]
        /\ \A i \in Accepted(last.frequency) :
               /\ AxisResults(last.frequency)[i].prominence > freq_thresholds.prominence
               /\ AxisResults(last.frequency)[i].entropy < freq_thresholds.entropy
        /\ last.computed =>
               LET high == last.state_before.is_high_jerk
                   settled == high /\ last.jerk_magnitude < jerk_thresholds.zero_threshold
                   duration == last.current_time - last.state_before.high_jerk_start_time[1]
               IN  /\ IsEvent(last.jerk, "jerk_start")
                          <=> ~high /\ last.jerk_magnitude > jerk_thresholds.trigger_threshold
                   /\ IsEvent(last.jerk, "snap_detected")
                          <=> settled /\ duration >= jerk_thresholds.minimum_duration
                   /\ last.raised
                          <=> settled /\ duration < jerk_thresholds.minimum_duration

\* a configure call changes the thresholds of its detector and nothing else of the detectors
C18_ConfigureStep ==
    last'.op \in ConfigureOps =>
        /\ UNCHANGED <<procVars, jerk_state, accel_history, timestamp_history,
                       gyro_buffers, accel_buffers, results_history>>
        /\ last'.op # "configure_energy_detector" => UNCHANGED energy_thresholds
        /\ last'.op # "configure_frequency_analyzer" => UNCHANGED freq_thresholds
        /\ last'.op # "configure_jerk_detector" => UNCHANGED jerk_thresholds

\* processing a sample leaves the thresholds as configured
C18_SampleStep ==
    last'.op = "_on_data_received" =>
        UNCHANGED <<energy_thresholds, freq_thresholds, jerk_thresholds>>

(* C18: a configure call stores the values given and changes nothing else  *)
(* of the detectors (jerk state, jerk history and spectral buffers stay as *)
(* they are, also within a high-jerk episode), and the sample processed    *)
(* next is decided by the thresholds stored.                               *)
C18_ConfigurationTakesEffect ==
    /\ [](C18_ThresholdsStored /\ C18_SampleUsesThresholds)
    /\ [][C18_ConfigureStep /\ C18_SampleStep]_vars

\* a Snap ends an episode that was reconfigured, just before, to a shorter minimum
C18_ReconfiguredDuringEpisode ==
    /\ IsOnDataReceived
    /\ last.previous = "configure_jerk_detector"
    /\ last.state_before.is_high_jerk
    /\ IsEvent(last.jerk, "snap_detected")
    /\ last.jerk[1].duration < minimum_duration_default

-----------------------------------------------------------------------------
(* Claims about notify (NotifySpec) *)

\* the invocations that belong to one notification, in the order they were made
InvokedBy(notification) == SelectSeq(invoked, LAMBDA e : e.notification = notification)

(* C19: notify invokes the callbacks once for each registration, in the    *)
(* order of registration and each with the result of the notification,     *)
(* all of them before it returns: the invocations of a notification are    *)
(* the list of callbacks as it was when notify was called (a prefix of the *)
(* list now), the invocations of the notification just made are the whole  *)
(* list, and the invocations of one notification are not interleaved with  *)
(* those of another.                                                       *)
C19_CallbacksInRegistrationOrder ==
    /\ \A n \in 1..ncalls :
           /\ Len(InvokedBy(n)) <= Len(callbacks)
           /\ \A i \in 1..Len(InvokedBy(n)) :
                  /\ InvokedBy(n)[i].callback = callbacks[i]
                  /\ InvokedBy(n)[i].result = InvokedBy(n)[1].result
    /\ last.op = "notify" =>
           /\ Len(InvokedBy(ncalls)) = Len(callbacks)
           /\ \A i \in 1..Len(callbacks) : InvokedBy(ncalls)[i].result = last.result
    /\ \A i, j \in 1..Len(invoked) :
           i < j => invoked[i].notification <= invoked[j].notification
    /\ \A i \in 1..Len(invoked) : invoked[i].notification \in 1..ncalls

\* three callbacks notified, after a notification made when fewer were registered
C19_NotifiedThreeCallbacks ==
    /\ last.op = "notify"
    /\ ncalls = 2
    /\ Len(callbacks) = 3
    /\ callbacks[1] # callbacks[2]
    /\ callbacks[3] = callbacks[1]
    /\ Len(InvokedBy(1)) = 1

-----------------------------------------------------------------------------
(* Claims about the callbacks of the detectors in the pipeline (RunSpec) *)

\* the aggregate that the sample just handled has left in the results history
AggregateOfSample ==
    IF last.recorded = 1 /\ results_history # << >>
          /\ results_history[Len(results_history)].timestamp = last.current_time
    THEN Some(results_history[Len(results_history)])
    ELSE None

(* C20: on every sample the callbacks of the frequency analyzer are        *)
(* notified exactly when the frequency result of the sample has detected = *)
(* true, those of the jerk detector exactly when process returns a Start   *)
(* or a Snap, and what they are given is the result that stands in the     *)
(* aggregate of that sample.                                               *)
C20_CallbacksMirrorAggregate ==
    IsOnDataReceived =>
        /\ last.notified.frequency # << >> <=> last.frequency.detected
        /\ last.notified.jerk # << >>
               <=> IsEvent(last.jerk, "jerk_start") \/ IsEvent(last.jerk, "snap_detected")
        /\ \A i \in 1..Len(last.notified.frequency) :
               /\ AggregateOfSample # None
               /\ AggregateOfSample[1].frequency = last.notified.frequency[i]
        /\ \A i \in 1..Len(last.notified.jerk) :
               /\ AggregateOfSample # None
               /\ AggregateOfSample[1].jerk = Some(last.notified.jerk[i])

-----------------------------------------------------------------------------
(* Claims about the recording loop (RecorderSpec) *)

IsMainloop == last.op = "mainloop"

FirstRowAtRest(rows) == rows # << >> => rows[1].velocity = << 0, 0, 0 >>

(* C21: whenever a recording session starts (button pressed while not      *)
(* recording), the velocity is [0,0,0] and the previous timestamp is       *)
(* absent before the first sample of the session is transformed; the       *)
(* first row of every session, saved or being recorded, has zero           *)
(* velocity, so no velocity of an earlier session appears in a later one.  *)
C21_SessionStartsFromRest ==
    /\ (IsMainloop /\ last.started) =>
           /\ last.velocity_at_transform = << 0, 0, 0 >>
           /\ last.last_timestamp_at_transform = None
    /\ FirstRowAtRest(recorder.current_session_data)
    /\ \A k \in DOMAIN recorder.saved : FirstRowAtRest(recorder.saved[k].rows)

\* a second session starts after a session that ended with a velocity
C21_SecondSessionAfterMotion ==
    /\ IsMainloop
    /\ last.started
    /\ recorder.session_counter = 2
    /\ last.velocity_before # << 0, 0, 0 >>
    /\ recorder.saved # << >>
    /\ recorder.current_session_data # << >>

-----------------------------------------------------------------------------
(* Claims about the change of frame (RoundTripSpec) *)

Rotated(v, q) == transform_to_global(v, q) # v

(* C22: transform_to_local(transform_to_global(v, q), q) equals v for      *)
(* every vector v and every normalized quaternion q.                       *)
C22_GlobalAndBack ==
    last.op = "transform_to_local" => last.result = input[1].v

\* a vector that the rotation moved has come back
C22_RotatedAndBack ==
    /\ last.op = "transform_to_local"
    /\ input[1].q = << 60, 80, 0, 0 >>
    /\ input[1].v = << 2500, -5000, 2500 >>
    /\ Rotated(input[1].v, input[1].q)
    /\ last.result = input[1].v

-----------------------------------------------------------------------------
(* Claims about the integration step (IntegratorSpec) *)

Integrates == IsProcess /\ last.last_time_before # None

IntegratedDt == last.current_time - last.last_time_before[1]

EulerStep(v, a_now, dt) == [i \in Axes |-> v[i] + FMul(a_now[i], dt)]

DecayedTrapezoid(v, a_prev, a_now, dt) ==
    [i \in Axes |-> FMul(95, v[i]) + FMul(dt, TruncDiv(a_prev[i] + a_now[i], 2))]

\* the update of the call is the trapezoid over the preceding sample and this one
IsTrapezoidOverPreceding ==
    /\ last.seen_before # None
    /\ velocity = DecayedTrapezoid(last.velocity_before, last.seen_before[1],
                                   last.ret.global_acceleration, IntegratedDt)

IsEulerStep ==
    velocity = EulerStep(last.velocity_before, last.ret.global_acceleration, IntegratedDt)

(* C24, as stated: every integrating call of process_sensor_data updates   *)
(* the velocity by the decayed trapezoid with a_prev the global            *)
(* acceleration of the immediately preceding processed sample; the Euler   *)
(* step is taken only when no sample, hence no acceleration, came before;  *)
(* afterwards the stored previous acceleration is a_now.                   *)
C24_EulerOnlyBeforeAnyAcceleration ==
    Integrates =>
        /\ IF last.seen_before = None THEN IsEulerStep ELSE IsTrapezoidOverPreceding
        /\ prev_accel = Some(last.ret.global_acceleration)

(* C24, amended: the first integrating call, which is the second sample    *)
(* processed, takes the Euler step although the first sample had an        *)
(* acceleration, since a call without previous timestamp stores none;      *)
(* every later integrating call takes the decayed trapezoid with a_prev    *)
(* the global acceleration of the immediately preceding processed sample;  *)
(* after an integrating call the stored previous acceleration is a_now.    *)
C24_EulerInFirstIntegratingCall ==
    /\ Integrates =>
           /\ ncalls >= 2
           /\ last.seen_before # None
           /\ IF ncalls = 2 THEN IsEulerStep ELSE IsTrapezoidOverPreceding
           /\ (last.prev_accel_before = None) <=> (ncalls = 2)
           /\ prev_accel = Some(last.ret.global_acceleration)
    /\ (IsProcess /\ ~Integrates) => ncalls = 1 /\ prev_accel = None

\* a third sample integrated by a trapezoid that differs from the Euler step
C24_TrapezoidOnThirdSample ==
    /\ Integrates
    /\ ncalls = 3
    /\ IntegratedDt > 0
    /\ last.seen_before # None
    /\ last.seen_before[1] # last.ret.global_acceleration
    /\ IsTrapezoidOverPreceding
    /\ ~IsEulerStep

-----------------------------------------------------------------------------
(* Claims about the analysis of one axis (FrequencySpec) *)

\* the six buffers, in the order of AxisResults
AxisBuffers ==
    << gyro_buffers[1], gyro_buffers[2], gyro_buffers[3],
       accel_buffers[1], accel_buffers[2], accel_buffers[3] >>

MeasureOf(freq_pos, power_pos, refined_frequency) ==
    [prominence |-> _calculate_prominence(freq_pos, power_pos, refined_frequency),
     entropy |-> _calculate_entropy(power_pos)]

MeasureSpectrum(freq_pos, power_pos) ==
    MeasureOf(freq_pos, power_pos, _refine_frequency(freq_pos, power_pos, ArgMax(power_pos)))

\* prominence and entropy of the most recent window_size samples of a buffer
WindowMeasure(buffer_data, window_size) ==
    MeasureSpectrum(PositiveFrequencies(window_size),
                    PositivePower(LastN(buffer_data, window_size)))

WindowConfidence(m) == FMul(m.prominence, One - m.entropy)

PassesThresholds(m) ==
    m.prominence > freq_thresholds.prominence /\ m.entropy < freq_thresholds.entropy

\* the window sizes not larger than the buffer whose estimate passes the thresholds
AcceptedWindows(buffer_data) ==
    { k \in DOMAIN window_sizes :
          /\ window_sizes[k] <= Len(buffer_data)
          /\ PassesThresholds(WindowMeasure(buffer_data, window_sizes[k])) }

KeptIsBestOf(result, buffer_data, accepted) ==
    /\ result.confidence = FMul(result.prominence, One - result.entropy)
    /\ \E k \in accepted :
           /\ result.window_size = window_sizes[k]
           /\ result.confidence = WindowConfidence(WindowMeasure(buffer_data, window_sizes[k]))
    /\ \A k \in accepted :
           result.confidence >= WindowConfidence(WindowMeasure(buffer_data, window_sizes[k]))

AxisAgrees(result, buffer_data, accepted) ==
    /\ result.detected <=> accepted # { }
    /\ result.detected => KeptIsBestOf(result, buffer_data, accepted)

(* C25: for each axis buffer the axis analysis reports detected=true iff   *)
(* some configured window size not larger than the buffer yields           *)
(* prominence above the prominence threshold and entropy below the entropy *)
(* threshold, for every threshold configuration; the estimate kept has     *)
(* confidence prominence*(1-entropy), the maximum over the accepted        *)
(* windows; larger windows are skipped, smaller ones analysed on the most  *)
(* recent samples.                                                         *)
C25_DetectedIffSomeWindowAccepted ==
    last.op = "frequency_process" =>
        \A i \in 1..6 :
            AxisAgrees(AxisResults(last.ret)[i], AxisBuffers[i], AcceptedWindows(AxisBuffers[i]))

-----------------------------------------------------------------------------
(* Claims about the hysteresis of the jerk detector (JerkSpec) *)

\* the call left the state of the detector as it was and produced no event
NoTransition ==
    /\ jerk_state = last.state_before
    /\ last.ret = None
    /\ last.notified = << >>
    /\ ~last.raised

(* C26: in the high-jerk state a sample whose jerk is not below            *)
(* zero_threshold, a jerk above trigger_threshold included, leaves the     *)
(* state and the entry timestamp unchanged and emits no event; in the      *)
(* quiescent state a sample whose jerk is not above trigger_threshold      *)
(* leaves the state unchanged and emits no event.                          *)
C26_HysteresisHolds ==
    (IsJerkProcess /\ Len(fed.jerk) >= 2) =>
        /\ (last.state_before.is_high_jerk /\ FedJerk >= last.thresholds.zero_threshold)
               => NoTransition
        /\ (~last.state_before.is_high_jerk /\ FedJerk <= last.thresholds.trigger_threshold)
               => NoTransition

\* an episode that a jerk above trigger_threshold did not restart
C26_EpisodeKeptAboveTrigger ==
    /\ IsJerkProcess
    /\ Len(fed.jerk) >= 2
    /\ last.state_before.is_high_jerk
    /\ FedJerk > last.thresholds.trigger_threshold
    /\ jerk_state.is_high_jerk
    /\ jerk_state.high_jerk_start_time = last.state_before.high_jerk_start_time
    /\ jerk_state.high_jerk_start_time # Some(last.timestamp)

-----------------------------------------------------------------------------
(* Claims about the episodes of the jerk detector (JerkSpec) *)

\* the marks alternate: a Start, then the Snap or the silent end of its episode
EpisodesAlternate(episodes) ==
    \A k \in DOMAIN episodes :
        IF k % 2 = 1 THEN episodes[k] = "start" ELSE episodes[k] \in { "snap", "end" }

(* C28: jerk events alternate: a Start is emitted only from the quiescent  *)
(* state and a Snap only from the high-jerk state; between two Starts the  *)
(* detector has left the high-jerk state once, every Snap is preceded by   *)
(* exactly one Start since the end of the previous episode, and the entry  *)
(* timestamp is set exactly while the detector is in the high-jerk state.  *)
C28_EpisodesAlternate ==
    /\ EpisodesAlternate(fed.episodes)
    /\ jerk_state.is_high_jerk <=> Len(fed.episodes) % 2 = 1
    /\ jerk_state.is_high_jerk <=> jerk_state.high_jerk_start_time # None
    /\ jerk_state.is_high_jerk => jerk_state.high_jerk_start_time = Some(LastStart)
    /\ (IsJerkProcess /\ IsStart(last.ret)) =>
           ~last.state_before.is_high_jerk /\ jerk_state.is_high_jerk
    /\ (IsJerkProcess /\ IsSnap(last.ret)) =>
           last.state_before.is_high_jerk /\ ~jerk_state.is_high_jerk

\* a second episode started after a first one that ended with its Snap
C28_SecondEpisode ==
    /\ IsJerkProcess
    /\ IsStart(last.ret)
    /\ fed.episodes = << "start", "snap", "start" >>
    /\ jerk_state.high_jerk_start_time = Some(last.timestamp)

-----------------------------------------------------------------------------
(* Claims about the LED controller (LedSpec) *)

\* the loop threads that have not terminated
ActiveLoops ==
    { t \in DOMAIN controller.threads :
          IsLoop(controller.threads[t]) /\ controller.threads[t].pc # "done" }

\* a fantasy loop is running and is not told to stop
FantasyRunning ==
    /\ ~controller.animation_stop_flag
    /\ \E t \in ActiveLoops : controller.threads[t].kind = "fantasy"

\* the flash thread has finished and the controller was not called since its flash
FlashFinished(th) ==
    /\ th.kind = "flash"
    /\ th.pc = "done"
    /\ th.call = ncalls
    /\ controller.threads[1].pc = "idle"

(* C27: after a snap flash triggered while the fantasy animation is        *)
(* running, once the flash thread has finished the fantasy loop is running *)
(* again and keeps sending colours.                                        *)
C27_AnimationResumesAfterFlash ==
    \A t \in DOMAIN controller.threads :
        (FlashFinished(controller.threads[t]) /\ controller.threads[t].interrupted)
            => FantasyRunning

(* C29: at most one animation loop is active at a time: when a new loop    *)
(* thread has started, every earlier loop thread has terminated, under     *)
(* every interleaving of the caller with the running loop.                 *)
C29_OneLoopAtATime == Cardinality(ActiveLoops) <= 1

-----------------------------------------------------------------------------
(* Claims about LED control (ControlSpec) *)

(* C30: once LED control has been disabled through toggle_led_control or   *)
(* set_led_control(False), the last LED command sent is 'LED 0,0,0,0' and  *)
(* no colour command is sent until control is enabled again, under every   *)
(* interleaving of the keyboard thread with the thread that calls led_on.  *)
C30_OffStaysLast ==
    (~device.led_enabled /\ device.keyboard = "input" /\ device.clients # None)
        => device.led \in { None, Some(LedOff) }

=============================================================================
